---- MODULE Spec2Model ----
(***************************************************************************)
(* Model of the refresh worker: the polling scheduler (start_polling),     *)
(* the task execution engine (_run_single_batch, _run_refresh_task), the   *)
(* single executor thread running _refresh_one, the due-set computation    *)
(* (_get_expiring_accounts) and the daily trigger (_wait_for_next_trigger).*)
(*                                                                         *)
(* Threads: the asyncio event-loop thread runs the start_polling           *)
(* coroutines (they interleave only at await points); the executor thread  *)
(* runs _refresh_one; stop_polling, a cancellation request and changes of  *)
(* the account store come from outside at any moment.                      *)
(*                                                                         *)
(* Time is counted in hours in the scheduler specifications and in         *)
(* 30-second polls in the trigger specification.                           *)
(***************************************************************************)
EXTENDS Integers, Sequences, FiniteSets, TLC

\* ------------------------------------------------------------------ bounds
\* accounts in the store at start
MaxAccounts == 3
\* batches dispatched (tasks created)
MaxTasks == 2
\* the clock stops advancing at this hour
MaxTime == 2
\* largest configured refresh_batch_size
MaxBatch == 2
\* calls made from outside while the scheduler runs: stop_polling, a
\* cancellation request, a cancellation of the coroutine, an account
\* disabled in the store
MaxInterventions == 1
\* calendar days after the first that the trigger clock covers
MaxDays == 1

\* --------------------------------------------------------------- constants
\* refresh_service.py:110  task log keeps the most recent 200 entries
MAX_LOGS == 200
\* gemini_automation.py:1000  default validity of a fresh session, in hours
DEFAULT_EXPIRY_HOURS == 12

\* absent / empty field, and a field that does not parse
NoValue == -1
Unparsable == -2

Loops == {1, 2}

\* ------------------------------------------------------------ pure helpers
Range(s) == {s[i] : i \in 1..Len(s)}
Min(a, b) == IF a < b THEN a ELSE b
Max(a, b) == IF a > b THEN a ELSE b

\* str.lower() on the provider tags the model uses
Lower(s) ==
  CASE s = "Microsoft" -> "microsoft"
    [] s = "GPTMail" -> "gptmail"
    [] OTHER -> s

\* the last n entries of a sequence: logs[-200:]
LastN(s, n) ==
  IF Len(s) <= n THEN s ELSE SubSeq(s, Len(s) - n + 1, Len(s))

\* variant: a slice that starts one element early
SliceOverlap(s, i, n) == SubSeq(s, Max(i, 1), Min(i + n, Len(s)))

\* s[i:i+n] of Python, i counted from 0
Slice(s, i, n) == SubSeq(s, i + 1, Min(i + n, Len(s)))

\* ------------------------------------------------------------ account store
\* One record of the account store.  Text fields are "" when absent
\* (mail_address is "addr" when the record has one, and IdAsAddress once the
\* account id was written into it);
\* expires_at is an hour, NoValue when absent, Unparsable when strptime fails.
Account(id, disabled, provider, client_id, refresh_token, password, jwt, expires_at) ==
  [id |-> id, disabled |-> disabled, mail_provider |-> provider,
   mail_client_id |-> client_id, mail_refresh_token |-> refresh_token,
   mail_password |-> password, email_password |-> "",
   mail_jwt_token |-> jwt, mail_address |-> "", expires_at |-> expires_at,
   trial_end |-> NoValue]

\* mail_provider, with the fallback for an empty tag
MailProvider(account) ==
  LET p == Lower(account.mail_provider) IN
    IF p # "" THEN p
    ELSE IF account.mail_client_id # "" \/ account.mail_refresh_token # ""
         THEN "microsoft"
         ELSE "duckmail"

\* account.get("mail_password") or account.get("email_password")
MailPassword(account) ==
  IF account.mail_password # "" THEN account.mail_password ELSE account.email_password

\* variant: a due-set computation that tests no provider secret
BindingCompleteLoose(account, cfg) == TRUE

\* the provider rules of the due-set computation: FALSE is `continue`
BindingComplete(account, cfg) ==
  LET p == MailProvider(account) IN
    CASE p = "microsoft" ->
           account.mail_client_id # "" /\ account.mail_refresh_token # ""
      [] p \in {"duckmail", "moemail"} -> MailPassword(account) # ""
      [] p = "freemail" -> cfg.freemail_jwt_token # ""
      [] p = "gptmail" -> TRUE
      [] OTHER -> FALSE

\* expires_at is present, parses, and remaining <= refresh_window_hours
WithinWindow(account, cfg, clock) ==
  /\ account.expires_at # NoValue
  /\ account.expires_at # Unparsable
  /\ ~(account.expires_at - clock > cfg.refresh_window_hours)

\* variant: a due-set computation without the cooldown check
InCooldownOff(account_id, cfg, timestamps, clock) == FALSE

\* the cooldown check: refreshed less than refresh_cooldown_hours ago
InCooldown(account_id, cfg, timestamps, clock) ==
  /\ account_id \in DOMAIN timestamps
  /\ clock - timestamps[account_id] < cfg.refresh_cooldown_hours

\* variant: a due-set computation that does not test the disabled flag
IsExpiringIgnoresDisabled(account, cfg, timestamps, clock) ==
  /\ account.id # NoValue
  /\ BindingComplete(account, cfg)
  /\ WithinWindow(account, cfg, clock)
  /\ ~InCooldown(account.id, cfg, timestamps, clock)

\* the body of the loop of _get_expiring_accounts for one account
IsExpiring(account, cfg, timestamps, clock) ==
  /\ account.id # NoValue
  /\ ~account.disabled
  /\ BindingComplete(account, cfg)
  /\ WithinWindow(account, cfg, clock)
  /\ ~InCooldown(account.id, cfg, timestamps, clock)

\* the ids of a list of accounts, in order
Ids(accs) == [i \in 1..Len(accs) |-> accs[i].id]

\* _get_expiring_accounts: the due set, in the order the store lists them
GetExpiringAccounts(accs, cfg, timestamps, clock) ==
  Ids(SelectSeq(accs, LAMBDA a: IsExpiring(a, cfg, timestamps, clock)))

\* the mail-binding resolution of _refresh_one: "" when a client is built,
\* else the error of the failure result
ResolveBinding(account, cfg) ==
  LET p == MailProvider(account) IN
    CASE p = "microsoft" ->
           IF account.mail_client_id = "" \/ account.mail_refresh_token = ""
           THEN "Microsoft OAuth config missing" ELSE ""
      [] p \in {"duckmail", "moemail", "freemail", "gptmail"} ->
           IF p \notin {"freemail", "gptmail"} /\ MailPassword(account) = ""
           THEN "mail password missing"
           ELSE IF p = "freemail" /\ account.mail_jwt_token = ""
                   /\ cfg.freemail_jwt_token = ""
                THEN "Freemail JWT Token not configured"
                ELSE ""
      [] OTHER -> "unsupported mail provider"

\* next((acc for acc in accounts if acc.get("id") == account_id), None)
FindAccount(accs, account_id) ==
  LET hits == SelectSeq(accs, LAMBDA a: a.id = account_id) IN
    IF hits = <<>> THEN <<>> ELSE <<hits[1]>>

\* ------------------------------------------------------------------- tasks
\* RefreshTask(id=..., account_ids=...): the dataclass defaults
NewTask(task_id, account_ids) ==
  [id |-> task_id, account_ids |-> account_ids, status |-> "pending",
   progress |-> 0, success_count |-> 0, fail_count |-> 0,
   finished |-> FALSE, results |-> <<>>, error |-> "", logs |-> <<>>,
   cancel_requested |-> FALSE, cancel_reason |-> "", history |-> <<>>]

Terminal == {"success", "failed", "cancelled"}

\* the messages _append_log lets through while the task is being cancelled
SafeMessages ==
  {"cancel requested:", "task cancelled", "task cancelled while pending",
   "login task cancelled:"}

\* the task after _append_log stored the entry (entry kept, log cut to 200)
AppendLog(task, level, message) ==
  [task EXCEPT !.logs =
     LastN(Append(@, [level |-> level, message |-> message]), MAX_LOGS)]

\* variant: an _append_log that never raises
LogNeverRaises(task, message) == FALSE

\* _append_log raises TaskCancelledError after storing the entry
LogRaises(task, message) ==
  task.cancel_requested /\ message \notin SafeMessages

\* result dictionaries of _refresh_one
Failure(account_id, error) ==
  [success |-> FALSE, email |-> account_id, error |-> error]
Success(account_id) ==
  [success |-> TRUE, email |-> account_id, error |-> ""]

\* ------------------------------------------------------------------- state
VARIABLES
  is_polling,          \* RefreshService._is_polling
  current_task,        \* RefreshService._current_task: a task id, 0 for None
  refresh_timestamps,  \* RefreshService._refresh_timestamps: id -> hour
  cancel_hooks,        \* RefreshService._cancel_hooks: task id -> hook count
  triggered_today,     \* RefreshService._triggered_today
  tasks,               \* the RefreshTask objects still referenced, by id
  task_seq,            \* ids handed out so far (uuid4 is fresh each time)
  store,               \* the account store: the list load_accounts_sync returns
  config,              \* the configuration snapshot
  now,                 \* the clock, in hours
  co,                  \* the start_polling coroutines: position and locals
  fut,                 \* the executor future each coroutine awaits
  queue,               \* work items of the ThreadPoolExecutor not yet started
  worker,              \* the single executor thread
  interventions,       \* calls made from outside so far
  ghost                \* history: per task the adapter calls made and the point
                       \* of the cancel request; the accounts whose latest
                       \* refresh failed; the batches dispatched in the cycle;
                       \* the registrations and pauses of the cycle's
                       \* auto-registration

schedVars ==
  <<is_polling, current_task, refresh_timestamps, cancel_hooks, tasks, task_seq,
    store, config, now, co, fut, queue, worker, interventions, ghost>>
vars == <<schedVars, triggered_today>>

\* positions at which a coroutine holds the event-loop thread
RunningPcs ==
  {"while", "cycle", "for", "t_start", "t_loop", "t_log", "t_post", "t_fin",
   "t_finlog", "b_done", "round_done", "reg", "reg_session", "reg_sleep"}
\* positions at which a coroutine is suspended in an await
AwaitPcs == {"sleep_disabled", "trigger", "t_await", "batch_sleep"}

EventThreadFree == \A l \in Loops : co[l].pc \notin RunningPcs

\* no call of _auto_register_if_needed in this cycle so far
NoRun == [ran |-> FALSE, min_count |-> 0, active_count |-> 0, trace |-> <<>>]

NoFuture == [kind |-> "none"]
Pending == [kind |-> "pending"]
Idle == [pc |-> "idle"]

InitCo ==
  [pc |-> "init", expiring |-> <<>>, i |-> 0, tid |-> 0, idx |-> 0, k |-> 0,
   need |-> 0, reg_i |-> 0, cancelled |-> FALSE]

\* the tasks some coroutine or the executor thread still refers to
Keep(f, ids) == [t \in (DOMAIN f) \cap ids |-> f[t]]
Referenced(coNew, workerNew) ==
  {coNew[l].tid : l \in Loops}
    \cup (IF workerNew.pc = "idle" THEN {} ELSE {workerNew.tid})

\* the account the task is at: account_ids[idx - 1]
CurrentAccount(l) == tasks[co[l].tid].account_ids[co[l].idx]

StoreInit ==
  [i \in 1..MaxAccounts |-> Account(i, FALSE, "duckmail", "", "", "pw", "", 1)]

ConfigSpace ==
  [refresh_batch_size : 1..MaxBatch,
   refresh_window_hours : {1},
   refresh_cooldown_hours : {1},
   auto_register_enabled : BOOLEAN,
   min_account_count : {MaxAccounts + 1},
   freemail_jwt_token : {""}]

\* RefreshService.__init__, before start_polling is called
Init ==
  /\ is_polling = FALSE
  /\ current_task = 0
  /\ refresh_timestamps = <<>>
  /\ cancel_hooks = <<>>
  /\ triggered_today = {}
  /\ tasks = <<>>
  /\ task_seq = 0
  /\ store = StoreInit
  /\ config \in ConfigSpace
  /\ now = 0
  /\ co = [l \in Loops |-> InitCo]
  /\ fut = [l \in Loops |-> NoFuture]
  /\ queue = <<>>
  /\ worker = Idle
  /\ interventions = 0
  /\ ghost = [task |-> <<>>, failed |-> {}, batches |-> <<>>, reg |-> NoRun,
              load |-> "none"]

\* ------------------------------------------------- the task execution engine
\* `task.status = CANCELLED; task.finished_at = time.time()`
Cancelled(task) == [task EXCEPT !.status = "cancelled", !.finished = TRUE]

\* the except-clauses of _run_single_batch for CancelledError and
\* TaskCancelledError
CancelledByHandler(task) ==
  [task EXCEPT !.cancel_requested = TRUE, !.status = "cancelled", !.finished = TRUE]

\* the four log lines before an account is handed to the executor
ProgressMessages == <<"progress", "separator", "refresh started", "separator">>
\* the log lines after a result was recorded
SuccessMessages == <<"separator", "refresh succeeded", "separator">>
FailureMessages == <<"separator", "refresh failed", "failure reason", "separator">>

\* variant: a finally-clause that leaves the hooks of the task registered
ClearCancelHooksNot(hooks, tid) == hooks

\* _clear_cancel_hooks(task_id): self._cancel_hooks.pop(task_id, None)
ClearCancelHooks(hooks, tid) == Keep(hooks, (DOMAIN hooks) \ {tid})

\* _save_task_history(task): task.to_dict() is handed to the storage, whose
\* exception is swallowed; the hand-over is noted with the task (the status
\* handed over, and whether the storage raised)
SaveTaskHistory(task, raised) ==
  [task EXCEPT !.history = Append(@, [status |-> task.status, raised |-> raised])]

\* the finally-clause of _run_single_batch, the task having become `task`:
\* hooks cleared, history saved, _current_task = None, and the return
BatchEnds(l, task) ==
  /\ \E raised \in BOOLEAN :
       tasks' = [tasks EXCEPT ![co[l].tid] = SaveTaskHistory(task, raised)]
  /\ cancel_hooks' = ClearCancelHooks(cancel_hooks, co[l].tid)
  /\ current_task' = 0
  /\ co' = [co EXCEPT ![l].pc = "b_done", ![l].k = 0]

\* start_polling is called: the guard on _is_polling, then the loop
StartPolling(l) ==
  /\ co[l].pc = "init"
  /\ EventThreadFree
  /\ IF is_polling
     THEN /\ co' = [co EXCEPT ![l].pc = "done"]
          /\ UNCHANGED is_polling
     ELSE /\ is_polling' = TRUE
          /\ co' = [co EXCEPT ![l].pc = "while"]
  /\ UNCHANGED <<current_task, refresh_timestamps, cancel_hooks, tasks, task_seq,
                 store, config, now, fut, queue, worker, ghost, triggered_today,
                 interventions>>

\* `while self._is_polling:` the reload of the configuration and the test of
\* scheduled_refresh_enabled; leaving the loop runs the finally-clause
WhileCheck(l) ==
  /\ co[l].pc = "while"
  /\ IF ~is_polling
     THEN co' = [co EXCEPT ![l].pc = "done"]
     ELSE \E enabled \in BOOLEAN :
            co' = [co EXCEPT ![l].pc =
                     IF enabled THEN "trigger" ELSE "sleep_disabled"]
  /\ UNCHANGED <<is_polling, current_task, refresh_timestamps, cancel_hooks, tasks,
                 task_seq, store, config, now, fut, queue, worker, ghost,
                 triggered_today, interventions>>

\* asyncio.sleep(CONFIG_CHECK_INTERVAL_SECONDS) is over
DisabledSleepDone(l) ==
  /\ co[l].pc = "sleep_disabled"
  /\ EventThreadFree
  /\ co' = [co EXCEPT ![l].pc = "while"]
  /\ UNCHANGED <<is_polling, current_task, refresh_timestamps, cancel_hooks, tasks,
                 task_seq, store, config, now, fut, queue, worker, ghost,
                 triggered_today, interventions>>

\* variant: a failed load taken for the accounts last seen
LoadAccountsStale(loaded, accs) == accs

\* _load_accounts: the list load_accounts_sync returns, [] when it returns
\* None (the database connection failed)
LoadAccounts(loaded, accs) == IF loaded THEN accs ELSE <<>>

\* _wait_for_next_trigger returns; `if not self._is_polling: break`; the due
\* set is computed from the store as it is now (delete_expired_accounts is
\* off); an empty due set ends the cycle
TriggerReturn(l) ==
  /\ co[l].pc = "trigger"
  /\ EventThreadFree
  /\ IF ~is_polling
     THEN /\ co' = [co EXCEPT ![l].pc = "done"]
          /\ ghost' = [ghost EXCEPT !.batches = <<>>, !.reg = NoRun]
          /\ UNCHANGED now
     ELSE \E t \in now..MaxTime, loaded \in BOOLEAN :
            LET accs == LoadAccounts(loaded, store)
                expiring == GetExpiringAccounts(accs, config, refresh_timestamps, t)
            IN /\ now' = t
               /\ co' = [co EXCEPT ![l].pc =
                                     IF expiring = <<>> THEN "while" ELSE "for",
                                   ![l].expiring = expiring,
                                   ![l].i = 0]
               /\ ghost' = [ghost EXCEPT !.batches = <<>>, !.reg = NoRun,
                                         !.load = IF loaded THEN "ok" ELSE "failed"]
  /\ UNCHANGED <<is_polling, current_task, refresh_timestamps, cancel_hooks, tasks,
                 task_seq, store, config, fut, queue, worker,
                 triggered_today, interventions>>

\* variant: a batch loop that does not look at _is_polling
ForEndsWithoutStopTest(l) == co[l].i >= Len(co[l].expiring)

\* the batch loop is over: range() is exhausted, or `if not
\* self._is_polling: break`
ForEnds(l) == co[l].i >= Len(co[l].expiring) \/ ~is_polling

\* one turn of `for i in range(0, len(expiring), batch_size)`: the stop test,
\* the slice, and the head of _run_single_batch (task made current and running)
ForCheck(l) ==
  /\ co[l].pc = "for"
  /\ (co[l].i < Len(co[l].expiring) /\ is_polling) => task_seq < MaxTasks
  /\ IF ForEnds(l)
     THEN /\ co' = [co EXCEPT ![l].pc = "round_done"]
          /\ UNCHANGED <<current_task, tasks, task_seq, ghost>>
     ELSE LET tid == task_seq + 1
              batch == Slice(co[l].expiring, co[l].i, config.refresh_batch_size)
          IN /\ task_seq' = tid
             /\ tasks' = (tid :> [NewTask(tid, batch) EXCEPT !.status = "running"])
                           @@ tasks
             /\ ghost' = [ghost EXCEPT
                  !.task = (tid :> [calls |-> <<>>, cancel_k |-> NoValue,
                                    cancel_pc |-> "", fired |-> 0]) @@ @,
                  !.batches = Append(@, batch)]
             /\ current_task' = tid
             /\ co' = [co EXCEPT ![l].pc = "t_start", ![l].tid = tid, ![l].idx = 0]
  /\ UNCHANGED <<is_polling, refresh_timestamps, cancel_hooks, store, config, now,
                 fut, queue, worker, triggered_today, interventions>>

\* _run_refresh_task: the first log line
TaskStart(l) ==
  /\ co[l].pc = "t_start"
  /\ LET t0 == tasks[co[l].tid]
         t == AppendLog(t0, "info", "task started")
     IN IF LogRaises(t0, "task started")
        THEN BatchEnds(l, CancelledByHandler(t))
        ELSE /\ tasks' = [tasks EXCEPT ![co[l].tid] = t]
             /\ co' = [co EXCEPT ![l].pc = "t_loop", ![l].idx = 1]
             /\ UNCHANGED <<current_task, cancel_hooks>>
  /\ UNCHANGED <<is_polling, refresh_timestamps, task_seq, store, config, now, fut,
                 queue, worker, ghost, triggered_today, interventions>>

\* `for idx, account_id in enumerate(...)`: the end of the batch, or the
\* test of cancel_requested before an account
TaskLoop(l) ==
  /\ co[l].pc = "t_loop"
  /\ LET t == tasks[co[l].tid]
     IN IF co[l].idx > Len(t.account_ids)
        THEN /\ co' = [co EXCEPT ![l].pc = "t_fin"]
             /\ UNCHANGED <<tasks, current_task, cancel_hooks>>
        ELSE IF t.cancel_requested
        THEN BatchEnds(l, Cancelled(AppendLog(t, "warning", "login task cancelled:")))
        ELSE /\ co' = [co EXCEPT ![l].pc = "t_log", ![l].k = 1]
             /\ UNCHANGED <<tasks, current_task, cancel_hooks>>
  /\ UNCHANGED <<is_polling, refresh_timestamps, task_seq, store, config, now, fut,
                 queue, worker, ghost, triggered_today, interventions>>

\* one of the four log lines in the try-block, each a cancellation point;
\* after the last, _refresh_one is handed to the executor and awaited
TaskLog(l) ==
  /\ co[l].pc = "t_log"
  /\ LET t0 == tasks[co[l].tid]
         msg == ProgressMessages[co[l].k]
         t == AppendLog(t0, "info", msg)
     IN IF LogRaises(t0, msg)
        THEN /\ BatchEnds(l, Cancelled(t))
             /\ UNCHANGED <<fut, queue>>
        ELSE /\ tasks' = [tasks EXCEPT ![co[l].tid] = t]
             /\ UNCHANGED <<current_task, cancel_hooks>>
             /\ IF co[l].k < Len(ProgressMessages)
                THEN /\ co' = [co EXCEPT ![l].k = @ + 1]
                     /\ UNCHANGED <<fut, queue>>
                ELSE /\ co' = [co EXCEPT ![l].pc = "t_await", ![l].k = 0]
                     /\ queue' = Append(queue, [tid |-> co[l].tid,
                                                account |-> CurrentAccount(l),
                                                owner |-> l])
                     /\ fut' = [fut EXCEPT ![l] = Pending]
  /\ UNCHANGED <<is_polling, refresh_timestamps, task_seq, store, config, now,
                 worker, ghost, triggered_today, interventions>>

\* variant: the cooldown table stamped whatever the result
StampAlways(timestamps, account_id, result, t) == (account_id :> t) @@ timestamps

\* `if result.get("success"): self._refresh_timestamps[account_id] = time.time()`
Stamp(timestamps, account_id, result, t) ==
  IF result.success THEN (account_id :> t) @@ timestamps ELSE timestamps

\* variant: an exception of _refresh_one taken for a refreshed account
CaughtAsSuccess(outcome, account_id) ==
  IF outcome.kind = "exc" THEN Success(account_id) ELSE outcome.result

\* the value of `result` after the try-block: what _refresh_one returned, or
\* `except Exception as exc: result = {"success": False, ...}`
Caught(outcome, account_id) ==
  IF outcome.kind = "exc" THEN Failure(account_id, "exception") ELSE outcome.result

\* variant: a failure that is recorded without being counted
RecordedUncounted(task, result) ==
  [task EXCEPT !.progress = @ + 1,
               !.results = Append(@, result),
               !.success_count = IF result.success THEN @ + 1 ELSE @]

\* `task.progress += 1; task.results.append(result)` and the counter of the
\* outcome
Recorded(task, result) ==
  [task EXCEPT !.progress = @ + 1,
               !.results = Append(@, result),
               !.success_count = IF result.success THEN @ + 1 ELSE @,
               !.fail_count = IF result.success THEN @ ELSE @ + 1]

\* the await returns: TaskCancelledError from the worker ends the task, any
\* other exception becomes a failure result; the result is recorded and a
\* success stamps the cooldown table
TaskResume(l) ==
  /\ co[l].pc = "t_await"
  /\ EventThreadFree
  /\ fut[l].kind \in {"result", "tce", "exc"}
  /\ fut' = [fut EXCEPT ![l] = NoFuture]
  /\ IF fut[l].kind = "tce"
     THEN /\ BatchEnds(l, Cancelled(tasks[co[l].tid]))
          /\ UNCHANGED <<refresh_timestamps, now, ghost>>
     ELSE LET result == Caught(fut[l], CurrentAccount(l))
          IN \E t \in IF result.success THEN now..MaxTime ELSE {now} :
               /\ now' = t
               /\ tasks' = [tasks EXCEPT ![co[l].tid] = Recorded(@, result)]
               /\ refresh_timestamps' =
                    Stamp(refresh_timestamps, CurrentAccount(l), result, t)
               /\ ghost' = [ghost EXCEPT !.failed =
                    IF result.success THEN @ \ {CurrentAccount(l)}
                    ELSE @ \cup {CurrentAccount(l)}]
               /\ co' = [co EXCEPT ![l].pc = "t_post", ![l].k = 1]
               /\ UNCHANGED <<current_task, cancel_hooks>>
  /\ UNCHANGED <<is_polling, task_seq, store, config, queue, worker,
                 triggered_today, interventions>>

\* the log lines after the result, outside the try-block: a cancellation
\* raised here reaches the handler of _run_single_batch
TaskPostLog(l) ==
  /\ co[l].pc = "t_post"
  /\ LET t0 == tasks[co[l].tid]
         ok == t0.results[Len(t0.results)].success
         msgs == IF ok THEN SuccessMessages ELSE FailureMessages
         t == AppendLog(t0, IF ok THEN "info" ELSE "error", msgs[co[l].k])
     IN IF LogRaises(t0, msgs[co[l].k])
        THEN BatchEnds(l, CancelledByHandler(t))
        ELSE /\ tasks' = [tasks EXCEPT ![co[l].tid] = t]
             /\ co' = IF co[l].k < Len(msgs)
                      THEN [co EXCEPT ![l].k = @ + 1]
                      ELSE [co EXCEPT ![l].pc = "t_loop", ![l].k = 0,
                                      ![l].idx = @ + 1]
             /\ UNCHANGED <<current_task, cancel_hooks>>
  /\ UNCHANGED <<is_polling, refresh_timestamps, task_seq, store, config, now, fut,
                 queue, worker, ghost, triggered_today, interventions>>

\* variant: the two outcomes of the fail_count test exchanged
FinalStatusSwapped(task) ==
  IF task.cancel_requested THEN "cancelled"
  ELSE IF task.fail_count = 0 THEN "failed" ELSE "success"

\* `if task.cancel_requested: CANCELLED else: SUCCESS if task.fail_count == 0
\* else FAILED`
FinalStatus(task) ==
  IF task.cancel_requested THEN "cancelled"
  ELSE IF task.fail_count = 0 THEN "success" ELSE "failed"

\* after the last account: the final status and finished_at
TaskFinish(l) ==
  /\ co[l].pc = "t_fin"
  /\ tasks' = [tasks EXCEPT
       ![co[l].tid].status = FinalStatus(tasks[co[l].tid]),
       ![co[l].tid].finished = TRUE]
  /\ co' = [co EXCEPT ![l].pc = "t_finlog"]
  /\ UNCHANGED <<is_polling, current_task, refresh_timestamps, cancel_hooks,
                 task_seq, store, config, now, fut, queue, worker, ghost,
                 triggered_today, interventions>>

\* the closing log line of _run_refresh_task, then _run_single_batch's
\* handlers and finally-clause
TaskFinishLog(l) ==
  /\ co[l].pc = "t_finlog"
  /\ LET t0 == tasks[co[l].tid]
         t == AppendLog(t0, "info", "task finished")
     IN BatchEnds(l, IF LogRaises(t0, "task finished")
                     THEN CancelledByHandler(t) ELSE t)
  /\ UNCHANGED <<is_polling, refresh_timestamps, task_seq, store, config, now, fut,
                 queue, worker, ghost, triggered_today, interventions>>

\* ------------------------------------------------------ the polling loop, on
\* _run_single_batch has returned: the inter-batch wait unless this was the
\* last batch or polling was stopped; the task object is no longer held
BatchDone(l) ==
  /\ co[l].pc = "b_done"
  /\ LET i2 == co[l].i + config.refresh_batch_size
         remaining == i2 < Len(co[l].expiring)
         coNew == [co EXCEPT ![l].pc = IF remaining /\ is_polling
                                       THEN "batch_sleep" ELSE "for",
                             ![l].i = i2, ![l].tid = 0, ![l].idx = 0]
     IN /\ co' = coNew
        /\ tasks' = Keep(tasks, Referenced(coNew, worker))
        /\ ghost' = [ghost EXCEPT !.task = Keep(@, Referenced(coNew, worker))]
  /\ UNCHANGED <<is_polling, current_task, refresh_timestamps, cancel_hooks,
                 task_seq, store, config, now, fut, queue, worker, triggered_today, interventions>>

\* asyncio.sleep(refresh_batch_interval_minutes * 60) is over
BatchSleepDone(l) ==
  /\ co[l].pc = "batch_sleep"
  /\ EventThreadFree
  /\ co' = [co EXCEPT ![l].pc = "for"]
  /\ UNCHANGED <<is_polling, current_task, refresh_timestamps, cancel_hooks, tasks,
                 task_seq, store, config, now, fut, queue, worker, ghost,
                 triggered_today, interventions>>

\* storage.count_active_accounts_sync(): the accounts that are not disabled
ActiveCount(accs) == Len(SelectSeq(accs, LAMBDA a: ~a.disabled))

\* "refresh round complete": auto-registration when enabled, and the head of
\* _auto_register_if_needed (the minimum, the active count, the shortfall)
RoundDone(l) ==
  /\ co[l].pc = "round_done"
  /\ LET min_count == config.min_account_count
         active_count == ActiveCount(store)
     IN co' = IF /\ config.auto_register_enabled
                 /\ min_count > 0
                 /\ active_count < min_count
              THEN [co EXCEPT ![l].pc = "reg", ![l].expiring = <<>>, ![l].i = 0,
                              ![l].need = min_count - active_count,
                              ![l].reg_i = 0]
              ELSE [co EXCEPT ![l].pc = "while", ![l].expiring = <<>>, ![l].i = 0]
  /\ ghost' = IF config.auto_register_enabled
              THEN [ghost EXCEPT !.reg = [ran |-> TRUE,
                                          min_count |-> config.min_account_count,
                                          active_count |-> ActiveCount(store),
                                          trace |-> <<>>]]
              ELSE ghost
  /\ UNCHANGED <<is_polling, current_task, refresh_timestamps, cancel_hooks, tasks,
                 task_seq, store, config, now, fut, queue, worker,
                 triggered_today, interventions>>

\* variant: the next registration follows without a pause
AfterRegisterNoPause(l) ==
  IF co[l].reg_i < co[l].need - 1
  THEN [co EXCEPT ![l].pc = "reg", ![l].reg_i = @ + 1]
  ELSE [co EXCEPT ![l].pc = "while", ![l].need = 0, ![l].reg_i = 0]

\* after one registration: the 10 s pause unless it was the last one
AfterRegister(l) ==
  IF co[l].reg_i < co[l].need - 1
  THEN [co EXCEPT ![l].pc = "reg_sleep"]
  ELSE [co EXCEPT ![l].pc = "while", ![l].need = 0, ![l].reg_i = 0]

\* register_one, called on the event-loop thread: the mailbox is registered
\* and, if that worked, login_and_extract opens its browser page
RegisterStart(l) ==
  /\ co[l].pc = "reg"
  /\ \E mailbox \in BOOLEAN :
       co' = IF mailbox THEN [co EXCEPT ![l].pc = "reg_session"]
             ELSE AfterRegister(l)
  /\ ghost' = [ghost EXCEPT !.reg.trace = Append(@, "register")]
  /\ UNCHANGED <<is_polling, current_task, refresh_timestamps, cancel_hooks, tasks,
                 task_seq, store, config, now, fut, queue, worker,
                 triggered_today, interventions>>

\* the validity the adapter reports: cookie expiry less 12 h, or now + 12 h
SessionExpiries(clock) == {clock + 1, clock + DEFAULT_EXPIRY_HOURS}

\* login_and_extract of the registration returns (page quit); a success is
\* inserted into the store
RegisterFinish(l) ==
  /\ co[l].pc = "reg_session"
  /\ co' = AfterRegister(l)
  /\ \E ok \in BOOLEAN :
       store' = IF ok
                THEN Append(store, Account(Len(store) + 1, FALSE, "duckmail", "",
                                           "", "pw", "", now + DEFAULT_EXPIRY_HOURS))
                ELSE store
  /\ UNCHANGED <<is_polling, current_task, refresh_timestamps, cancel_hooks, tasks,
                 task_seq, config, now, fut, queue, worker, ghost,
                 triggered_today, interventions>>

\* time.sleep(10) between two registrations is over
RegisterSleepDone(l) ==
  /\ co[l].pc = "reg_sleep"
  /\ co' = [co EXCEPT ![l].pc = "reg", ![l].reg_i = @ + 1]
  /\ ghost' = [ghost EXCEPT !.reg.trace = Append(@, "sleep")]
  /\ UNCHANGED <<is_polling, current_task, refresh_timestamps, cancel_hooks, tasks,
                 task_seq, store, config, now, fut, queue, worker,
                 triggered_today, interventions>>

\* --------------------------------------------------------- the environment
\* stop_polling()
StopPolling ==
  /\ is_polling
  /\ interventions < MaxInterventions
  /\ interventions' = interventions + 1
  /\ is_polling' = FALSE
  /\ UNCHANGED <<current_task, refresh_timestamps, cancel_hooks, tasks, task_seq,
                 store, config, now, co, fut, queue, worker, ghost,
                 triggered_today>>

\* the coroutine that owns a task
OwnerOf(tid) == CHOOSE l \in Loops : co[l].tid = tid

\* _fire_cancel_hooks(task_id): every hook in the list of the task is called
\* (an exception of one hook is logged and the next one is called); the
\* number of hooks called
FireCancelHooks(hooks, tid) == IF tid \in DOMAIN hooks THEN hooks[tid] ELSE 0

\* a cancellation request for the current task: the flag and the reason are
\* set and the hooks registered for the task are invoked
RequestCancel ==
  /\ current_task # 0
  /\ ~tasks[current_task].cancel_requested
  /\ interventions < MaxInterventions
  /\ interventions' = interventions + 1
  /\ tasks' = [tasks EXCEPT ![current_task].cancel_requested = TRUE,
                            ![current_task].cancel_reason = "cancelled by user"]
  /\ ghost' = [ghost EXCEPT
       !.task[current_task].cancel_k = Len(tasks[current_task].results),
       !.task[current_task].cancel_pc = co[OwnerOf(current_task)].pc,
       !.task[current_task].fired = FireCancelHooks(cancel_hooks, current_task)]
  /\ UNCHANGED <<is_polling, current_task, refresh_timestamps, cancel_hooks,
                 task_seq, store, config, now, co, fut, queue, worker,
                 triggered_today>>

\* the asyncio task running start_polling is cancelled: CancelledError is
\* raised at the await the coroutine is suspended in.  In the await of
\* _run_refresh_task it is caught by _run_single_batch, which returns; a
\* work item not yet started is cancelled with the future, a started one
\* runs on.  Elsewhere it ends start_polling through its finally-clause.
CancelCoroutine(l) ==
  /\ co[l].pc \in AwaitPcs
  /\ EventThreadFree
  /\ interventions < MaxInterventions
  /\ interventions' = interventions + 1
  /\ IF co[l].pc = "t_await"
     THEN /\ \E raised \in BOOLEAN :
               tasks' = [tasks EXCEPT ![co[l].tid] =
                           SaveTaskHistory(CancelledByHandler(@), raised)]
          /\ cancel_hooks' = ClearCancelHooks(cancel_hooks, co[l].tid)
          /\ current_task' = 0
          /\ co' = [co EXCEPT ![l].pc = "b_done", ![l].cancelled = TRUE]
          /\ fut' = [fut EXCEPT ![l] = NoFuture]
          /\ queue' = SelectSeq(queue, LAMBDA j: j.owner # l)
          /\ worker' = IF worker.pc # "idle" /\ worker.owner = l
                       THEN [worker EXCEPT !.owner = 0] ELSE worker
          /\ UNCHANGED is_polling
     ELSE /\ co' = [co EXCEPT ![l].pc = "done", ![l].cancelled = TRUE]
          /\ is_polling' = FALSE
          /\ UNCHANGED <<tasks, cancel_hooks, current_task, fut, queue, worker>>
  /\ UNCHANGED <<refresh_timestamps, task_seq, store, config, now, ghost,
                 triggered_today>>

\* an operator disables an account in the store
DisableAccount(a) ==
  /\ interventions < MaxInterventions
  /\ ~store[a].disabled
  /\ interventions' = interventions + 1
  /\ store' = [store EXCEPT ![a].disabled = TRUE]
  /\ UNCHANGED <<is_polling, current_task, refresh_timestamps, cancel_hooks, tasks,
                 task_seq, config, now, co, fut, queue, worker, ghost,
                 triggered_today>>

\* ------------------------------------------------- the executor thread
\* what the future of a work item ends with
Returned(result) == [kind |-> "result", result |-> result]
RaisedCancelled == [kind |-> "tce"]
RaisedError == [kind |-> "exc"]

\* _refresh_one ends with `outcome`, the task object having become `task`
WorkerFinish(task, outcome) ==
  /\ worker' = Idle
  /\ fut' = IF worker.owner # 0 THEN [fut EXCEPT ![worker.owner] = outcome] ELSE fut
  /\ tasks' = Keep([tasks EXCEPT ![worker.tid] = task], Referenced(co, Idle))
  /\ ghost' = [ghost EXCEPT !.task = Keep(@, Referenced(co, Idle))]

\* log_cb of _refresh_one: _append_log with the account prefix; the task
\* after the entry is stored
WorkerLog(level, message) == AppendLog(tasks[worker.tid], level, message)

\* variant: a _refresh_one that does not test the disabled flag
LoadErrorIgnoresDisabled(found) ==
  IF found = <<>> THEN "account not found" ELSE ""

\* the two early returns of _refresh_one: "" when the account was found
\* and is not disabled
LoadError(found) ==
  IF found = <<>> THEN "account not found"
  ELSE IF found[1].disabled THEN "account disabled" ELSE ""

\* the executor thread takes the next work item: _refresh_one loads the
\* accounts, looks its account up and stops if it is missing or disabled
WorkerLoad ==
  /\ worker.pc = "idle"
  /\ queue # <<>>
  /\ queue' = Tail(queue)
  /\ LET job == Head(queue)
     IN \E loaded \in BOOLEAN :
          LET found == FindAccount(IF loaded THEN store ELSE <<>>, job.account)
              error == LoadError(found)
          IN IF error # ""
             THEN /\ fut' = [fut EXCEPT ![job.owner] =
                               Returned(Failure(job.account, error))]
                  /\ UNCHANGED worker
             ELSE /\ worker' = [pc |-> "w_provider", tid |-> job.tid,
                                account |-> job.account, owner |-> job.owner,
                                acc |-> found[1]]
                  /\ UNCHANGED fut
  /\ UNCHANGED <<is_polling, current_task, refresh_timestamps, cancel_hooks, tasks,
                 task_seq, store, config, now, co, ghost, triggered_today, interventions>>

\* the "mail provider" log line, then the mail client is built from the
\* account as loaded
WorkerProvider ==
  /\ worker.pc = "w_provider"
  /\ LET t == WorkerLog("info", "[account] mail provider")
         error == ResolveBinding(worker.acc, config)
     IN IF LogRaises(tasks[worker.tid], "[account] mail provider")
        THEN WorkerFinish(t, RaisedCancelled)
        ELSE IF error # ""
        THEN WorkerFinish(t, Returned(Failure(worker.account, error)))
        ELSE /\ tasks' = [tasks EXCEPT ![worker.tid] = t]
             /\ worker' = [worker EXCEPT !.pc = "w_browser"]
             /\ UNCHANGED <<fut, ghost>>
  /\ UNCHANGED <<is_polling, current_task, refresh_timestamps, cancel_hooks,
                 task_seq, store, config, now, co, queue, triggered_today, interventions>>

\* the "starting browser" log line
WorkerBrowser ==
  /\ worker.pc = "w_browser"
  /\ LET t == WorkerLog("info", "[account] starting browser")
     IN IF LogRaises(tasks[worker.tid], "[account] starting browser")
        THEN WorkerFinish(t, RaisedCancelled)
        ELSE /\ tasks' = [tasks EXCEPT ![worker.tid] = t]
             /\ worker' = [worker EXCEPT !.pc = "w_login"]
             /\ UNCHANGED <<fut, ghost>>
  /\ UNCHANGED <<is_polling, current_task, refresh_timestamps, cancel_hooks,
                 task_seq, store, config, now, co, queue, triggered_today, interventions>>

\* _add_cancel_hook(task.id, ...)
AddCancelHook(hooks, tid) ==
  (tid :> (IF tid \in DOMAIN hooks THEN hooks[tid] + 1 ELSE 1)) @@ hooks

\* the cancel hook is registered; the "logging in" line inside the try-block
\* (a cancellation raised by it is caught by `except Exception`, logged, and
\* raised again by that log line); then login_and_extract is called
WorkerLogin ==
  /\ worker.pc = "w_login"
  /\ cancel_hooks' = AddCancelHook(cancel_hooks, worker.tid)
  /\ LET t == WorkerLog("info", "[account] logging in")
     IN IF LogRaises(tasks[worker.tid], "[account] logging in")
        THEN WorkerFinish(AppendLog(t, "error", "[account] login error"),
                          RaisedCancelled)
        ELSE /\ tasks' = [tasks EXCEPT ![worker.tid] = t]
             /\ ghost' = [ghost EXCEPT
                  !.task[worker.tid].calls = Append(@, worker.account)]
             /\ worker' = [worker EXCEPT !.pc = "w_session"]
             /\ UNCHANGED fut
  /\ UNCHANGED <<is_polling, current_task, refresh_timestamps, task_seq, store,
                 config, now, co, queue, triggered_today, interventions>>

\* `account.get("mail_address") or account_id`, as a mail address
IdAsAddress == "account_id"

\* the record written back: dict(account) updated with the extracted config,
\* to which _refresh_one added the resolved provider tag, the password it
\* used ("" for freemail and gptmail) and, for microsoft, the mail address
Merged(account, expires_at) ==
  [account EXCEPT
     !.expires_at = expires_at,
     !.mail_provider = MailProvider(account),
     !.mail_password = IF MailProvider(account) \in {"freemail", "gptmail"}
                       THEN "" ELSE MailPassword(account),
     !.mail_address = IF MailProvider(account) = "microsoft" /\ @ = ""
                      THEN IdAsAddress ELSE @]

\* storage.update_account_data_sync(account_id, merged)
UpdateAccount(accs, account_id, merged) ==
  [i \in 1..Len(accs) |-> IF accs[i].id = account_id THEN merged ELSE accs[i]]

\* what login_and_extract can end with: a config, a failure, or, once the
\* task is being cancelled, TaskCancelledError out of one of its log lines
AdapterOutcomes(task) ==
  {"config", "failure"} \cup (IF task.cancel_requested THEN {"cancelled"} ELSE {})

\* login_and_extract returns (its page is quit in its finally-clause) and
\* _refresh_one handles the outcome up to the store update
WorkerSessionEnd ==
  /\ worker.pc = "w_session"
  /\ \E outcome \in AdapterOutcomes(tasks[worker.tid]),
        expires_at \in SessionExpiries(now), saved \in BOOLEAN :
       LET t0 == tasks[worker.tid]
       IN CASE outcome = "cancelled" ->
                 /\ WorkerFinish(
                      AppendLog(AppendLog(t0, "info", "[account] adapter step"),
                                "error", "[account] login error"),
                      RaisedCancelled)
                 /\ UNCHANGED store
            [] outcome = "failure" ->
                 /\ WorkerFinish(
                      AppendLog(t0, "error", "[account] login failed"),
                      IF LogRaises(t0, "[account] login failed")
                      THEN RaisedCancelled
                      ELSE Returned(Failure(worker.account, "login failed")))
                 /\ UNCHANGED store
            [] outcome = "config" ->
                 LET t == AppendLog(t0, "info", "[account] login succeeded")
                 IN IF LogRaises(t0, "[account] login succeeded")
                    THEN /\ WorkerFinish(t, RaisedCancelled)
                         /\ UNCHANGED store
                    ELSE IF ~saved
                    THEN /\ WorkerFinish(t, RaisedError)
                         /\ UNCHANGED store
                    ELSE /\ store' = UpdateAccount(store, worker.account,
                                                   Merged(worker.acc, expires_at))
                         /\ tasks' = [tasks EXCEPT ![worker.tid] = t]
                         /\ worker' = [worker EXCEPT !.pc = "w_saved"]
                         /\ UNCHANGED <<fut, ghost>>
  /\ UNCHANGED <<is_polling, current_task, refresh_timestamps, cancel_hooks,
                 task_seq, config, now, co, queue, triggered_today, interventions>>

\* the "config saved" log line and the success result
WorkerSaved ==
  /\ worker.pc = "w_saved"
  /\ WorkerFinish(
       WorkerLog("info", "[account] config saved"),
       IF LogRaises(tasks[worker.tid], "[account] config saved")
       THEN RaisedCancelled
       ELSE Returned(Success(worker.account)))
  /\ UNCHANGED <<is_polling, current_task, refresh_timestamps, cancel_hooks,
                 task_seq, store, config, now, co, queue, triggered_today, interventions>>

\* ------------------------------------------------------------ specification
\* one step of the start_polling coroutine l on the event-loop thread
LoopStep(l) ==
  \/ StartPolling(l)
  \/ WhileCheck(l)
  \/ DisabledSleepDone(l)
  \/ TriggerReturn(l)
  \/ ForCheck(l)
  \/ TaskStart(l)
  \/ TaskLoop(l)
  \/ TaskLog(l)
  \/ TaskResume(l)
  \/ TaskPostLog(l)
  \/ TaskFinish(l)
  \/ TaskFinishLog(l)
  \/ BatchDone(l)
  \/ BatchSleepDone(l)
  \/ RoundDone(l)

\* one step of _auto_register_if_needed, called by coroutine l
RegisterStep(l) ==
  \/ RegisterStart(l)
  \/ RegisterFinish(l)
  \/ RegisterSleepDone(l)

\* one step of the executor thread
WorkerStep ==
  \/ WorkerLoad
  \/ WorkerProvider
  \/ WorkerBrowser
  \/ WorkerLogin
  \/ WorkerSessionEnd
  \/ WorkerSaved

\* start_polling is called once
Next ==
  \/ LoopStep(1)
  \/ RegisterStep(1)
  \/ WorkerStep
  \/ CancelCoroutine(1)
  \/ StopPolling
  \/ RequestCancel
  \/ \E a \in 1..Len(store) : DisableAccount(a)

Spec == Init /\ [][Next]_vars

\* the same program with its scheduling: the event loop resumes a coroutine
\* that can run, a blocking call on its thread returns, and the executor
\* thread goes on with the work it holds
SpecFair ==
  /\ Spec
  /\ WF_vars(LoopStep(1))
  /\ WF_vars(RegisterStep(1))
  /\ WF_vars(WorkerStep)

\* ------------------------------------------- exceptions inside a cycle
\* the calls of a cycle that can raise, by the position of the loop:
\* config_manager.reload(), _get_expiring_accounts() (the store),
\* _run_single_batch(), _auto_register_if_needed()
RaisingPcs == {"while", "trigger", "for", "round_done"}
CallAt(pc) ==
  CASE pc = "while" -> "reload"
    [] pc = "trigger" -> "load"
    [] pc = "for" -> "batch"
    [] pc = "round_done" -> "register"

\* variant: a start_polling without its outermost `except Exception`
HandlerWithoutOutermost(call) ==
  IF call \in {"reload", "batch", "register"} THEN "cycle" ELSE "none"

\* the except-clause that takes an exception of the call: one inside the
\* while-loop (lines 619, 661, 677), or the outermost one (line 682), which
\* ends the loop
Handler(call) ==
  IF call \in {"reload", "batch", "register"} THEN "cycle" ELSE "outer"

\* the call the loop is about to make can be made
CallReached(l) ==
  CASE co[l].pc = "while" -> is_polling
    [] co[l].pc = "trigger" -> is_polling /\ EventThreadFree
    [] co[l].pc = "for" -> ~ForEnds(l)
    [] co[l].pc = "round_done" -> config.auto_register_enabled
    [] OTHER -> FALSE

\* a call of the cycle raises an exception that is not a cancellation (a
\* failure from outside, counted with the other interventions): the
\* handler inside the loop logs it and the cycle goes on behind the call;
\* the outermost handler logs it and the finally-clause clears _is_polling;
\* an exception nobody catches leaves start_polling, through the
\* finally-clause too
CycleRaises(l) ==
  /\ co[l].pc \in RaisingPcs
  /\ CallReached(l)
  /\ interventions < MaxInterventions
  /\ interventions' = interventions + 1
  /\ LET call == CallAt(co[l].pc)
     IN CASE Handler(call) = "outer" ->
               /\ co' = [co EXCEPT ![l].pc = "done"]
               /\ is_polling' = FALSE
          [] Handler(call) = "none" ->
               /\ co' = [co EXCEPT ![l].pc = "raised"]
               /\ is_polling' = FALSE
          [] Handler(call) = "cycle" ->
               /\ UNCHANGED is_polling
               /\ \E enabled \in BOOLEAN :
                    co' = CASE call = "reload" ->
                                 [co EXCEPT ![l].pc = IF enabled THEN "trigger"
                                                      ELSE "sleep_disabled"]
                            [] call = "batch" ->
                                 [co EXCEPT ![l].pc = "b_done", ![l].tid = 0]
                            [] call = "register" ->
                                 [co EXCEPT ![l].pc = "while",
                                            ![l].expiring = <<>>, ![l].i = 0]
  /\ ghost' = IF CallAt(co[l].pc) = "load"
              THEN [ghost EXCEPT !.load = "raised"] ELSE ghost
  /\ UNCHANGED <<current_task, refresh_timestamps, cancel_hooks, tasks, task_seq,
                 store, config, now, fut, queue, worker, triggered_today>>

\* `except Exception as exc` of _run_single_batch: the task status FAILED,
\* the error text and finished_at
FailedByHandler(task) ==
  [task EXCEPT !.status = "failed", !.error = "exception", !.finished = TRUE]

\* _run_refresh_task raises an exception that is not a cancellation while
\* it runs on the event-loop thread (a failure from outside, counted with
\* the other interventions): _run_single_batch marks the task failed and
\* returns through its finally-clause
TaskRaises(l) ==
  /\ co[l].pc \in {"t_start", "t_loop", "t_log", "t_post", "t_fin", "t_finlog"}
  /\ interventions < MaxInterventions
  /\ interventions' = interventions + 1
  /\ BatchEnds(l, FailedByHandler(tasks[co[l].tid]))
  /\ UNCHANGED <<is_polling, refresh_timestamps, task_seq, store, config, now, fut,
                 queue, worker, ghost, triggered_today>>

NextFaulty ==
  \/ Next
  \/ CycleRaises(1)
  \/ TaskRaises(1)

SpecFaulty == Init /\ [][NextFaulty]_vars

\* start_polling is called again after stop_polling; auto-registration is
\* switched off
InitRestart == Init /\ ~config.auto_register_enabled

NextRestart ==
  \/ \E l \in Loops : LoopStep(l)
  \/ WorkerStep
  \/ StopPolling

SpecRestart == InitRestart /\ [][NextRestart]_vars

\* ------------------------------------------- the due set as a function
\* records that cover the rules of _get_expiring_accounts: one record drawn
\* freely, followed by one that is eligible unless it is in cooldown
DueRecords ==
  {[Account(id, disabled, provider, binding[1], binding[2], password[1], "",
            expires_at) EXCEPT !.email_password = password[2]] :
     id \in {NoValue, 1}, disabled \in BOOLEAN,
     provider \in {"", "Microsoft", "duckmail", "freemail", "GPTMail", "other"},
     binding \in {<<"", "">>, <<"c", "">>, <<"", "r">>, <<"c", "r">>},
     password \in {<<"", "">>, <<"pw", "">>, <<"", "pw">>},
     expires_at \in {NoValue, Unparsable} \cup (0..(MaxTime + 1))}

DueConfigs ==
  [refresh_batch_size : {MaxBatch},
   refresh_window_hours : {1},
   refresh_cooldown_hours : {1, 2},
   auto_register_enabled : {FALSE},
   min_account_count : {0},
   freemail_jwt_token : {"", "jwt"}]

DueTimestamps == {<<>>} \cup {(1 :> t) : t \in 0..1}

\* the scheduler suspended in the trigger wait, the store, the configuration,
\* the cooldown table and the clock drawn from the sets above
InitDue ==
  /\ is_polling = TRUE
  /\ current_task = 0
  /\ refresh_timestamps \in DueTimestamps
  /\ cancel_hooks = <<>>
  /\ triggered_today = {}
  /\ tasks = <<>>
  /\ task_seq = 0
  /\ \E r \in DueRecords :
       store = <<r, Account(2, FALSE, "duckmail", "", "", "pw", "", 1)>>
  /\ config \in DueConfigs
  /\ now \in 0..MaxTime
  /\ co = [l \in Loops |-> IF l = 1 THEN [InitCo EXCEPT !.pc = "trigger"]
                                     ELSE InitCo]
  /\ fut = [l \in Loops |-> NoFuture]
  /\ queue = <<>>
  /\ worker = Idle
  /\ interventions = 0
  /\ ghost = [task |-> <<>>, failed |-> {}, batches |-> <<>>, reg |-> NoRun,
              load |-> "none"]

NextDue == TriggerReturn(1)

SpecDue == InitDue /\ [][NextDue]_vars

\* ----------------------------------------------- the mail binding rules
\* records that cover the provider rules: every tag the code knows, an empty
\* tag and an unknown one, with and without each binding field; the record
\* is otherwise due
BindingRecords ==
  {[Account(1, FALSE, provider, binding[1], binding[2], password[1], jwt, 1)
      EXCEPT !.email_password = password[2], !.mail_address = address] :
     provider \in {"", "Microsoft", "duckmail", "moemail", "freemail", "GPTMail",
                   "other"},
     address \in {"", "addr"},
     binding \in {<<"", "">>, <<"c", "">>, <<"", "r">>, <<"c", "r">>},
     password \in {<<"", "">>, <<"pw", "">>, <<"", "pw">>},
     jwt \in {"", "jwt"}}

\* nothing resolved yet
Unresolved == "unresolved"

\* the scheduler suspended in the trigger wait over a store of one drawn
\* record and one record that is always due
InitBinding ==
  /\ is_polling = TRUE
  /\ current_task = 0
  /\ refresh_timestamps = <<>>
  /\ cancel_hooks = <<>>
  /\ triggered_today = {}
  /\ tasks = <<>>
  /\ task_seq = 0
  /\ \E r \in BindingRecords :
       store = <<r, Account(2, FALSE, "duckmail", "", "", "pw", "", 1)>>
  /\ config \in DueConfigs
  /\ now \in 0..MaxTime
  /\ co = [l \in Loops |-> IF l = 1 THEN [InitCo EXCEPT !.pc = "trigger"]
                                     ELSE InitCo]
  /\ fut = [l \in Loops |-> NoFuture]
  /\ queue = <<>>
  /\ worker = Idle
  /\ interventions = 0
  /\ ghost = [task |-> <<>>, failed |-> {}, batches |-> <<>>, reg |-> NoRun,
              load |-> "none", binding_error |-> Unresolved, before |-> <<>>]

\* _refresh_one for the drawn record, from the provider tag to the mail
\* client: the error of its failure result, "" when a client was built
ResolveStep ==
  /\ ghost.binding_error = Unresolved
  /\ ghost' = [ghost EXCEPT !.binding_error = ResolveBinding(store[1], config)]
  /\ UNCHANGED <<is_polling, current_task, refresh_timestamps, cancel_hooks, tasks,
                 task_seq, store, config, now, co, fut, queue, worker,
                 triggered_today, interventions>>

\* the rest of _refresh_one for the drawn record once its mail client is
\* built and the adapter has returned a config: the merged record replaces
\* the stored one (the record as it was is kept for comparison)
RefreshWrites ==
  /\ ghost.binding_error = ""
  /\ ghost.before = <<>>
  /\ store' = UpdateAccount(store, store[1].id, Merged(store[1], now + DEFAULT_EXPIRY_HOURS))
  /\ ghost' = [ghost EXCEPT !.before = <<store[1]>>]
  /\ UNCHANGED <<is_polling, current_task, refresh_timestamps, cancel_hooks, tasks,
                 task_seq, config, now, co, fut, queue, worker,
                 triggered_today, interventions>>

NextBinding ==
  \/ TriggerReturn(1)
  \/ ResolveStep
  \/ RefreshWrites

SpecBinding == InitBinding /\ [][NextBinding]_vars

\* -------------------------------------------------------- the trigger wait
\* The clock of this part counts 30-second polls.  A cron string is modelled
\* by what _parse_cron reads of it: whether it starts with "*/", the number
\* after it (Unparsable when int() raises), and the comma-separated tokens
\* that are not blank; a token is <<h, m>> for "h:m" (Unparsable where int()
\* raises) and a shorter or longer tuple when it has not two parts.
Tick(d, h, m, half) == ((d * 24 + h) * 60 + m) * 2 + half

\* strftime("%Y-%m-%d"), as the number of the day
TodayStr(tick) == tick \div (24 * 60 * 2)
HourOf(tick) == (tick \div (60 * 2)) % 24
MinuteOf(tick) == (tick \div 2) % 60

\* "%02d:%02d": the four digits of HH:MM
HHMM(h, m) == <<h \div 10, h % 10, m \div 10, m % 10>>

\* strftime("%H:%M")
CurrentTime(tick) == HHMM(HourOf(tick), MinuteOf(tick))

\* variant: a trigger key that leaves the configured time out
TriggerKeyOfDay(today_str, t) == <<today_str, <<>> >>

\* f"{today_str}_{t}"
TriggerKey(today_str, t) == <<today_str, t>>

\* k.startswith(today_str): the date has a fixed width
StartsWith(key, today_str) == key[1] = today_str

\* the test of one token in _parse_cron
ValidTime(token) ==
  /\ Len(token) = 2
  /\ token[1] # Unparsable /\ token[2] # Unparsable
  /\ 0 <= token[1] /\ token[1] <= 23
  /\ 0 <= token[2] /\ token[2] <= 59

\* variant: the interval taken as written, without the floor of 5 minutes
ParseCronUnclamped(cron_str) ==
  IF cron_str.star
  THEN [mode |-> "interval",
        minutes |-> IF cron_str.arg = Unparsable THEN 120 ELSE cron_str.arg,
        times |-> <<>>]
  ELSE LET ok == SelectSeq(cron_str.tokens, ValidTime)
           valid == [i \in 1..Len(ok) |-> HHMM(ok[i][1], ok[i][2])]
       IN [mode |-> "daily", minutes |-> 0,
           times |-> IF valid = <<>> THEN <<HHMM(8, 0), HHMM(20, 0)>> ELSE valid]

\* _parse_cron
ParseCron(cron_str) ==
  IF cron_str.star
  THEN [mode |-> "interval",
        minutes |-> IF cron_str.arg = Unparsable THEN 120 ELSE Max(cron_str.arg, 5),
        times |-> <<>>]
  ELSE LET ok == SelectSeq(cron_str.tokens, ValidTime)
           valid == [i \in 1..Len(ok) |-> HHMM(ok[i][1], ok[i][2])]
       IN [mode |-> "daily", minutes |-> 0,
           times |-> IF valid = <<>> THEN <<HHMM(8, 0), HHMM(20, 0)>> ELSE valid]

CronStar(arg) == [star |-> TRUE, arg |-> arg, tokens |-> <<>>]
CronTimes(tokens) == [star |-> FALSE, arg |-> NoValue, tokens |-> tokens]

\* the head of _wait_for_next_trigger: the old interval field takes over
\* when the cron string is empty or the default "08:00,20:00"
EffectiveCron(cfg) ==
  IF /\ cfg.scheduled_refresh_cron \in
          {CronTimes(<<>>), CronTimes(<< <<8, 0>>, <<20, 0>> >>)}
     /\ cfg.scheduled_refresh_interval_minutes > 0
  THEN CronStar(cfg.scheduled_refresh_interval_minutes)
  ELSE cfg.scheduled_refresh_cron

\* the hours and minutes the clock visits
TriggerHours == {8, 20}
TriggerMinutes == {0, 1}
ClockValues ==
  {Tick(d, h, m, half) : d \in 0..MaxDays, h \in TriggerHours,
                         m \in TriggerMinutes, half \in {0, 1}}

CronTokens == {<<8, 0>>, <<20, 0>>, <<24, 0>>, <<Unparsable, 0>>, <<8>>}
CronStrings ==
  {CronStar(a) : a \in {1, 2, 5, 10, Unparsable}}
    \cup {CronTimes(<<>>)}
    \cup {CronTimes(<<x>>) : x \in CronTokens}
    \cup {CronTimes(<<x, y>>) : x, y \in CronTokens}

\* the first configured time that fires at this poll: 0 when none does
FiringIndex(times, current_time, today_str, triggered) ==
  LET hits == {i \in 1..Len(times) :
                 /\ current_time = times[i]
                 /\ TriggerKey(today_str, times[i]) \notin triggered}
  IN IF hits = {} THEN 0 ELSE CHOOSE i \in hits : \A j \in hits : i <= j

\* start_polling calls _wait_for_next_trigger
InitTrigger ==
  /\ is_polling = TRUE
  /\ current_task = 0
  /\ refresh_timestamps = <<>>
  /\ cancel_hooks = <<>>
  /\ triggered_today = {}
  /\ tasks = <<>>
  /\ task_seq = 0
  /\ store = StoreInit
  /\ config \in [scheduled_refresh_cron : CronStrings,
                 scheduled_refresh_interval_minutes : {0, 10}]
  /\ now = Tick(0, 8, 0, 0)
  /\ co = [l \in Loops |-> [pc |-> IF l = 1 THEN "wait_enter" ELSE "init",
                            cron |-> ParseCron(CronTimes(<<>>))]]
  /\ fut = [l \in Loops |-> NoFuture]
  /\ queue = <<>>
  /\ worker = Idle
  /\ interventions = 0
  /\ ghost = [fired |-> <<>>]

\* _wait_for_next_trigger up to its first await: the cron string is parsed
WaitEnter(l) ==
  /\ co[l].pc = "wait_enter"
  /\ LET cron == ParseCron(EffectiveCron(config))
     IN co' = [co EXCEPT ![l].cron = cron,
                         ![l].pc = IF cron.mode = "interval"
                                   THEN "interval_sleep" ELSE "poll"]
  /\ UNCHANGED <<is_polling, current_task, refresh_timestamps, cancel_hooks, tasks,
                 task_seq, store, config, now, fut, queue, worker, ghost,
                 triggered_today, interventions>>

\* asyncio.sleep(minutes * 60) is over and the wait returns
IntervalSleepDone(l) ==
  /\ co[l].pc = "interval_sleep"
  /\ \E t \in ClockValues :
       /\ t >= now + co[l].cron.minutes * 2
       /\ now' = t
  /\ co' = [co EXCEPT ![l].pc = "returned"]
  /\ UNCHANGED <<is_polling, current_task, refresh_timestamps, cancel_hooks, tasks,
                 task_seq, store, config, fut, queue, worker, ghost,
                 triggered_today, interventions>>

\* one turn of the daily loop: the records of other days are dropped, then
\* the first configured time equal to the current minute and not yet
\* recorded today is recorded and the wait returns; else the 30 s sleep
DailyPoll(l) ==
  /\ co[l].pc = "poll"
  /\ IF ~is_polling
     THEN /\ co' = [co EXCEPT ![l].pc = "returned"]
          /\ UNCHANGED <<triggered_today, ghost>>
     ELSE LET current_time == CurrentTime(now)
              today_str == TodayStr(now)
              kept == {k \in triggered_today : StartsWith(k, today_str)}
              i == FiringIndex(co[l].cron.times, current_time, today_str, kept)
          IN IF i = 0
             THEN /\ triggered_today' = kept
                  /\ co' = [co EXCEPT ![l].pc = "poll_sleep"]
                  /\ UNCHANGED ghost
             ELSE /\ triggered_today' =
                       kept \cup {TriggerKey(today_str, co[l].cron.times[i])}
                  /\ co' = [co EXCEPT ![l].pc = "returned"]
                  /\ ghost' = [ghost EXCEPT !.fired =
                                 Append(@, <<today_str, current_time>>)]
  /\ UNCHANGED <<is_polling, current_task, refresh_timestamps, cancel_hooks, tasks,
                 task_seq, store, config, now, fut, queue, worker, interventions>>

\* asyncio.sleep(30) is over
PollSleepDone(l) ==
  /\ co[l].pc = "poll_sleep"
  /\ \E t \in ClockValues : t > now /\ now' = t
  /\ co' = [co EXCEPT ![l].pc = "poll"]
  /\ UNCHANGED <<is_polling, current_task, refresh_timestamps, cancel_hooks, tasks,
                 task_seq, store, config, fut, queue, worker, ghost,
                 triggered_today, interventions>>

\* the wait has returned: start_polling runs its cycle and, still polling,
\* calls the wait again, a moment or a long time later
WaitAgain(l) ==
  /\ co[l].pc = "returned"
  /\ is_polling
  /\ \E t \in ClockValues : t >= now /\ now' = t
  /\ co' = [co EXCEPT ![l].pc = "wait_enter"]
  /\ UNCHANGED <<is_polling, current_task, refresh_timestamps, cancel_hooks, tasks,
                 task_seq, store, config, fut, queue, worker, ghost,
                 triggered_today, interventions>>

NextTrigger ==
  \/ WaitEnter(1)
  \/ IntervalSleepDone(1)
  \/ DailyPoll(1)
  \/ PollSleepDone(1)
  \/ WaitAgain(1)
  \/ StopPolling

SpecTrigger == InitTrigger /\ [][NextTrigger]_vars


\* ------------------------------------------------ deletion of expired accounts
\* trial_end is a day number: NoValue when the field is absent or empty,
\* Unparsable when strptime("%Y-%m-%d") raises.  The clock is in hours of UTC.

\* datetime.now(beijing_tz).date(): the day of the clock eight hours ahead
Today(clock) == (clock + 8) \div 24

\* variant: a trial that ends today counts as ended
TrialEndedOrToday(end_date, today) == end_date <= today

\* `if end_date < today`
TrialEnded(end_date, today) == end_date < today

\* the body of the loop of _get_expired_account_ids for one account
IsExpired(account, clock) ==
  /\ account.id # NoValue
  /\ ~account.disabled
  /\ account.trial_end # NoValue
  /\ account.trial_end # Unparsable
  /\ TrialEnded(account.trial_end, Today(clock))

\* _get_expired_account_ids
GetExpiredAccountIds(accs, clock) ==
  Ids(SelectSeq(accs, LAMBDA a: IsExpired(a, clock)))

\* what delete_accounts_sync leaves in the store
DeleteAccounts(accs, ids) == SelectSeq(accs, LAMBDA a: a.id \notin Range(ids))

\* `self._refresh_timestamps.pop(aid, None)` for each id of the request
PopTimestamps(timestamps, ids) ==
  [a \in (DOMAIN timestamps) \ Range(ids) |-> timestamps[a]]

\* the outcomes of delete_accounts_sync: every requested row deleted, none
\* deleted (it returns 0), or an exception
DeleteOutcomes == {"deleted", "none", "raised"}

\* step 1 of a cycle of start_polling: with delete_expired_accounts set,
\* _delete_expired_accounts sends the expired ids, if any, to the store and
\* on a positive count forgets their cooldown entries; an exception is
\* logged and the cycle goes on
DeleteExpiredStep(l) ==
  /\ co[l].pc = "delete"
  /\ co' = [co EXCEPT ![l].pc = "due"]
  /\ IF ~config.delete_expired_accounts
     THEN UNCHANGED <<store, refresh_timestamps, ghost>>
     ELSE \E loaded \in BOOLEAN, outcome \in DeleteOutcomes :
            LET accs == IF loaded THEN store ELSE <<>>
                expired_ids == GetExpiredAccountIds(accs, now)
            IN IF expired_ids = <<>>
               THEN /\ outcome = "none"
                    /\ UNCHANGED <<store, refresh_timestamps, ghost>>
               ELSE /\ ghost' = [ghost EXCEPT !.requests =
                                   Append(@, [ids |-> expired_ids,
                                              accounts |-> accs,
                                              clock |-> now])]
                    /\ store' = IF outcome = "deleted"
                                THEN DeleteAccounts(store, expired_ids)
                                ELSE store
                    /\ refresh_timestamps' =
                         IF outcome = "deleted"
                         THEN PopTimestamps(refresh_timestamps, expired_ids)
                         ELSE refresh_timestamps
  /\ UNCHANGED <<is_polling, current_task, cancel_hooks, tasks, task_seq,
                 config, now, fut, queue, worker, triggered_today, interventions>>

\* the trial-end days and the hours of the clock that are drawn
TrialEnds == {NoValue, Unparsable} \cup (0..(MaxDays + 1))
ExpiryClock == {d * 24 + h : d \in 0..MaxDays, h \in {0, 15, 16, 23}}

ExpiryRecord(id, disabled, trial_end) ==
  [Account(id, disabled, "duckmail", "", "", "pw", "", 1)
     EXCEPT !.trial_end = trial_end]

ExpiryStores ==
  {<<ExpiryRecord(i1, d1, e1), ExpiryRecord(2, d2, e2)>> :
     i1 \in {1, NoValue}, d1 \in BOOLEAN, e1 \in TrialEnds,
     d2 \in BOOLEAN, e2 \in TrialEnds}

\* a cycle of the scheduler whose trigger wait has just returned
InitExpiry ==
  /\ is_polling = TRUE
  /\ current_task = 0
  /\ refresh_timestamps \in {<<>>, (2 :> 0)}
  /\ cancel_hooks = <<>>
  /\ triggered_today = {}
  /\ tasks = <<>>
  /\ task_seq = 0
  /\ store \in ExpiryStores
  /\ \E c \in ConfigSpace, gate \in BOOLEAN :
       /\ c.refresh_batch_size = 1 /\ ~c.auto_register_enabled
       /\ config = [delete_expired_accounts |-> gate] @@ c
  /\ now \in ExpiryClock
  /\ co = [l \in Loops |-> IF l = 1 THEN [InitCo EXCEPT !.pc = "delete"]
                                     ELSE InitCo]
  /\ fut = [l \in Loops |-> NoFuture]
  /\ queue = <<>>
  /\ worker = Idle
  /\ interventions = 0
  /\ ghost = [requests |-> <<>>]

NextExpiry == DeleteExpiredStep(1)

SpecExpiry == InitExpiry /\ [][NextExpiry]_vars

\* ------------------------------------------------------- the login attempt
\* One call of GeminiAutomation.login_and_extract, step by step.  `worker`
\* is the thread that runs it, `tasks` holds the task its log callback
\* writes to (the callback of a registration is a plain logger and never
\* raises), `ghost` records what the attempt did.  A verification code and
\* the content of the code field are sequences of digits; <<>> is no code.
max_send_rounds == 3
max_send_attempts == 3

\* send_round_delays and retry_delays
send_round_delays == <<15, 30, 60>>

\* delays[min(n - 1, len(delays) - 1)]
DelayAfter(n) == send_round_delays[Min(n - 1, Len(send_round_delays) - 1) + 1]

Codes == {<<4, 8>>, <<2, 9>>}
NoCode == <<>>

\* what the network listener reports for one click
NetworkSignals == {"sent", "captcha_check_failed", "send_email_otp_error", "none"}

\* _verify_code_send_by_network: a batchexecute response without an error
VerifyByNetwork(signal) == signal = "sent"

\* self._last_send_error after _verify_code_send_by_network
LastSendError(signal) ==
  IF signal \in {"captcha_check_failed", "send_email_otp_error"} THEN signal ELSE ""

\* `_verify_code_send_by_network(page) or _verify_code_send_status(page)`;
\* the page check is TRUE unless an alert with an error keyword is shown
CodeSent(signal, page_status) ==
  IF VerifyByNetwork(signal) THEN TRUE ELSE page_status

\* element.input(char) for the first k characters of text
TypeChars(field, text, k) == field \o SubSeq(text, 1, k)

\* variant: the fallback input does not clear the field
InputAppended(field, text) == field \o text

\* code_input.input(code, clear=True)
InputCleared(field, text) == text

FlowFailure(error) == [kind |-> "result", success |-> FALSE, error |-> error]
FlowSuccess(cfg) == [kind |-> "result", success |-> TRUE, config |-> cfg]
FlowCancelled == [kind |-> "tce"]

\* login_and_extract is left: the finally-clause quits the page, if one was
\* created, and clears self._page
Leave(w, outcome) ==
  [w EXCEPT !.pc = "done", !.result = outcome,
            !.page = IF w.page = "none" THEN "none" ELSE "quit"]

\* the task after its log callback stored the lines, in order; the text of
\* a line of the attempt is kept as the account prefix the callback puts
\* before it
RECURSIVE LogAll(_, _)
LogAll(task, lines) ==
  IF lines = <<>> THEN task
  ELSE LogAll(AppendLog(task, lines[1][1], "[account] adapter step"),
              Tail(lines))

\* the three variables an action of the attempt writes
Flow(w, task, g) ==
  /\ worker' = w
  /\ tasks' = [tasks EXCEPT ![worker.tid] = task]
  /\ ghost' = g

\* a stretch of the attempt that writes `lines` to the log callback and
\* leaves the flow at w with history g.  The callback of a registration is
\* a plain logger.  The callback of a refresh is _append_log: when the first
\* line raises TaskCancelledError the stretch stops there, `caught` being
\* the lines of the handlers the exception passes on its way out, and
\* login_and_extract is left with the exception and history g0
FlowLines(lines, w, g, caught, g0) ==
  LET task == tasks[worker.tid]
  IN IF worker.is_new_account
     THEN Flow(w, task, g)
     ELSE IF lines # <<>> /\ LogRaises(task, lines[1][2])
     THEN Flow(Leave(worker, FlowCancelled),
               LogAll(task, <<lines[1]>> \o caught), g0)
     ELSE Flow(w, LogAll(task, lines), g)

flowFrame ==
  <<is_polling, current_task, refresh_timestamps, cancel_hooks, task_seq, store,
    config, now, co, fut, queue, triggered_today, interventions>>

\* page = self._create_page() and self._page = page; an exception of the
\* browser start is caught, logged and becomes a failure
CreatePage ==
  /\ worker.pc = "create"
  /\ \E started \in BOOLEAN :
       IF started
       THEN Flow([worker EXCEPT !.pc = "open", !.page = "open"],
                 tasks[worker.tid], ghost)
       ELSE FlowLines(<< <<"error", "automation error">> >>,
                      Leave(worker, FlowFailure("automation error")), ghost,
                      <<>>, ghost)
  /\ UNCHANGED flowFrame

\* steps 1 and 2 of _run_flow: the login page is opened; a URL that already
\* carries the business parameters leads straight to _extract_config
OpenLogin ==
  /\ worker.pc = "open"
  /\ \E has_business_params \in BOOLEAN :
       FlowLines(<< <<"info", "open login page">>, <<"info", "set cookie">>,
                    <<"info", "current URL">>,
                    <<"info", IF has_business_params
                              THEN "already logged in" ELSE "send code">> >>,
                 IF has_business_params
                 THEN [worker EXCEPT !.pc = "extract"]
                 ELSE [worker EXCEPT !.pc = "send", !.send_round = 0],
                 ghost, <<>>, ghost)
  /\ UNCHANGED flowFrame

\* variant: after the last failed round the flow goes on to the code field
AfterFailedRoundGoesOn(w) ==
  IF w.send_round >= max_send_rounds
  THEN [w EXCEPT !.pc = "code_input"]
  ELSE [w EXCEPT !.pc = "send"]

\* `if send_round >= max_send_rounds: return {"success": False, ...}`, else
\* the next turn of the loop
AfterFailedRound(w) ==
  IF w.send_round >= max_send_rounds
  THEN Leave(w, FlowFailure("send code failed after retries"))
  ELSE [w EXCEPT !.pc = "send"]

\* _click_send_code_button has returned False: the error line and the
\* failure after the last round, else the warning line and the sleep
RoundEnd ==
  /\ worker.pc = "round_end"
  /\ IF worker.send_round >= max_send_rounds
     THEN FlowLines(<< <<"error", "send code failed">> >>,
                    AfterFailedRound(worker), ghost, <<>>, ghost)
     ELSE FlowLines(<< <<"warning", "send failed, retry">> >>,
                    AfterFailedRound(worker),
                    [ghost EXCEPT !.round_delays =
                                    Append(@, DelayAfter(worker.send_round))],
                    <<>>, ghost)
  /\ UNCHANGED flowFrame

\* one turn of the `while True` of step 3 up to the first click: the send
\* button is looked up by id and by keyword; without a button the round
\* succeeds if the code field is already shown and fails otherwise
SendRound ==
  /\ worker.pc = "send"
  /\ \E found \in {"button", "code_input", "nothing"} :
       LET w == [worker EXCEPT !.send_round = @ + 1, !.attempt = 1]
       IN CASE found = "button" ->
                 Flow([w EXCEPT !.pc = "click"], tasks[worker.tid], ghost)
            [] found = "code_input" ->
                 FlowLines(<< <<"info", "already on code page">>,
                              <<"warning", "no resend button">> >>,
                           [w EXCEPT !.pc = "code_input"], ghost, <<>>, ghost)
            [] found = "nothing" ->
                 FlowLines(<< <<"error", "send button not found">> >>,
                           [w EXCEPT !.pc = "round_end"],
                           [ghost EXCEPT !.failed_rounds = @ + 1], <<>>, ghost)
  /\ UNCHANGED flowFrame

\* one turn of `for attempt in range(1, max_send_attempts + 1)`: the click,
\* the two checks, and after a failed check the log line and the sleep; an
\* exception of the click is logged and the next turn follows at once
ClickSend ==
  /\ worker.pc = "click"
  /\ \E raised \in BOOLEAN, signal \in NetworkSignals, page_status \in BOOLEAN :
       LET g == [ghost EXCEPT !.clicks = @ + 1, !.click_delay = 0]
           last == worker.attempt >= max_send_attempts
           failed == << <<"warning", "click failed">> >>
       IN IF raised
          THEN /\ signal = "none" /\ page_status
               /\ FlowLines(failed,
                            IF last THEN [worker EXCEPT !.pc = "round_end"]
                            ELSE [worker EXCEPT !.attempt = @ + 1],
                            IF last THEN [g EXCEPT !.failed_rounds = @ + 1] ELSE g,
                            <<>>, g)
          ELSE IF CodeSent(signal, page_status)
          THEN Flow([worker EXCEPT !.pc = "code_input"], tasks[worker.tid],
                    [g EXCEPT !.sent_error = LastSendError(signal)])
          ELSE LET line == << <<IF LastSendError(signal) = "captcha_check_failed"
                                THEN "error" ELSE "warning", "send failed">> >>
                   gd == [g EXCEPT !.click_delay = DelayAfter(worker.attempt)]
               IN FlowLines(line,
                            IF last THEN [worker EXCEPT !.pc = "round_end"]
                            ELSE [worker EXCEPT !.attempt = @ + 1],
                            IF last THEN [gd EXCEPT !.failed_rounds = @ + 1] ELSE gd,
                            failed, g)
  /\ UNCHANGED flowFrame

\* step 4: _wait_for_code_input
AwaitCodeInput ==
  /\ worker.pc = "code_input"
  /\ \E code_input \in BOOLEAN :
       LET g == [ghost EXCEPT !.entered = @ \cup {"AwaitCodeInput"}]
       IN IF code_input
          THEN FlowLines(<< <<"info", "waiting for mail code">> >>,
                         [worker EXCEPT !.pc = "poll"], g, <<>>, g)
          ELSE FlowLines(<< <<"error", "code input not found">> >>,
                         Leave(worker, FlowFailure("code input not found")), g,
                         <<>>, g)
  /\ UNCHANGED flowFrame

\* step 5, first poll: mail_client.poll_for_code
PollForCode ==
  /\ worker.pc = "poll"
  /\ \E code \in Codes \cup {NoCode} :
       LET g == [ghost EXCEPT !.polls = Append(@, code)]
       IN IF code # NoCode
          THEN FlowLines(<< <<"info", "code received">> >>,
                         [worker EXCEPT !.pc = "submit", !.code = code], g,
                         <<>>, g)
          ELSE FlowLines(<< <<"warning", "code timeout, resending">> >>,
                         [worker EXCEPT !.pc = "resend"], g, <<>>, g)
  /\ UNCHANGED flowFrame

\* _click_resend_code_button: an exception of the click, the cancellation
\* raised by its log line included, is swallowed and counts as no button;
\* without a click the attempt fails with a code timeout
ResendCode ==
  /\ worker.pc = "resend"
  /\ \E button \in BOOLEAN :
       LET task == tasks[worker.tid]
           swallowed == ~worker.is_new_account
                          /\ LogRaises(task, "[account] adapter step")
           timeout == << <<"error", "code timeout, no resend button">> >>
       IN IF button /\ ~swallowed
          THEN FlowLines(<< <<"info", "click resend">> >>,
                         [worker EXCEPT !.pc = "poll_again"],
                         [ghost EXCEPT !.resent = TRUE], <<>>, ghost)
          ELSE IF button
          THEN FlowLines(<< <<"info", "click resend">> >>, worker, ghost,
                         timeout, ghost)
          ELSE FlowLines(timeout,
                         Leave(worker, FlowFailure("verification code timeout")),
                         ghost, <<>>, ghost)
  /\ UNCHANGED flowFrame

\* step 5, second poll
PollAgain ==
  /\ worker.pc = "poll_again"
  /\ \E code \in Codes \cup {NoCode} :
       LET g == [ghost EXCEPT !.polls = Append(@, code)]
       IN IF code = NoCode
          THEN FlowLines(<< <<"error", "no code after resend">> >>,
                         Leave(worker,
                               FlowFailure("verification code timeout after resend")),
                         g, <<>>, g)
          ELSE FlowLines(<< <<"info", "code received">> >>,
                         [worker EXCEPT !.pc = "submit", !.code = code], g,
                         <<>>, g)
  /\ UNCHANGED flowFrame

\* step 6: the code field is looked up again, the code is typed character
\* by character (an exception after k characters falls back to one input
\* that clears the field first), and Enter submits what the field holds
SubmitCode ==
  /\ worker.pc = "submit"
  /\ \E code_input \in BOOLEAN, k \in 0..Len(worker.code) :
       IF ~code_input
       THEN /\ k = 0
            /\ FlowLines(<< <<"error", "code input expired">> >>,
                         Leave(worker, FlowFailure("code input expired")), ghost,
                         <<>>, ghost)
       ELSE LET typed == TypeChars(<<>>, worker.code, k)
                complete == k = Len(worker.code)
                field == IF complete THEN typed
                         ELSE InputCleared(typed, worker.code)
            IN FlowLines(<< <<"info", "typing code">> >>
                           \o (IF complete THEN <<>>
                               ELSE << <<"warning", "typing failed">> >>)
                           \o << <<"info", "submit code">> >>,
                         [worker EXCEPT !.pc = IF worker.is_new_account
                                               THEN "name" ELSE "settle"],
                         [ghost EXCEPT !.submitted = Append(@, field)],
                         <<>>, ghost)
  /\ UNCHANGED flowFrame

\* registration only: the name page and the wait for the business URL; a
\* failure of either falls through to the common steps
NameSetup ==
  /\ worker.pc = "name"
  /\ \E name_set \in BOOLEAN, params \in BOOLEAN :
       IF name_set /\ params
       THEN FlowLines(<< <<"info", "registered">> >>,
                      [worker EXCEPT !.pc = "extract"], ghost, <<>>, ghost)
       ELSE FlowLines(<< <<"info", "name step not completed">> >>,
                      [worker EXCEPT !.pc = "settle"], ghost, <<>>, ghost)
  /\ UNCHANGED flowFrame

\* steps 7 to 12: the wait for the redirect, the check that the code page
\* was left, and the wait for the URL parameters with one refresh
SettleAndParams ==
  /\ worker.pc = "settle"
  /\ \E on_code_page \in BOOLEAN, params \in BOOLEAN :
       LET settle == << <<"info", "waiting for redirect">>,
                        <<"info", "URL after verification">> >>
       IN IF on_code_page
          THEN /\ params
               /\ FlowLines(settle \o << <<"error", "code submission failed">> >>,
                            Leave(worker,
                                  FlowFailure("verification code submission failed")),
                            ghost, <<>>, ghost)
          ELSE IF ~params
          THEN FlowLines(settle \o << <<"error", "URL parameters missing">> >>,
                         Leave(worker, FlowFailure("URL parameters not found")),
                         ghost, <<>>, ghost)
          ELSE FlowLines(settle \o << <<"info", "logged in">> >>,
                         [worker EXCEPT !.pc = "extract"], ghost, <<>>, ghost)
  /\ UNCHANGED flowFrame

\* what _extract_config returns for a URL with or without "cid/", the
\* csesidx parameter ("" without it) and the two cookies ("" when missing)
Extracted(cid, csesidx, ses, host, expires_at) ==
  IF ~cid THEN FlowFailure("cid not found")
  ELSE FlowSuccess([config_id |-> "cid", csesidx |-> csesidx,
                    secure_c_ses |-> ses, host_c_oses |-> host,
                    expires_at |-> expires_at])

\* _extract_config: every exception inside it becomes a failure result, the
\* cancellation raised by its "cookie incomplete" line or by the lines of
\* _extract_trial_end included
ExtractConfig ==
  /\ worker.pc = "extract"
  /\ \E cid \in BOOLEAN, csesidx \in {"", "idx"}, ses \in {"", "ses"},
        host \in {"", "host"}, expires_at \in SessionExpiries(now),
        raised \in BOOLEAN :
       LET g == [ghost EXCEPT !.extracted = TRUE]
           task == tasks[worker.tid]
           lines == (IF "" \in {ses, host}
                     THEN << <<"warning", "cookie incomplete">> >> ELSE <<>>)
                      \o << <<"info", "trial info">> >>
           cancelled == ~worker.is_new_account /\ LogRaises(task, lines[1][2])
       IN IF raised
          THEN /\ cid /\ csesidx = "idx" /\ ses = "ses" /\ host = "host"
               /\ expires_at = now + DEFAULT_EXPIRY_HOURS
               /\ Flow(Leave(worker, FlowFailure("exception")), task, g)
          ELSE IF ~cid
          THEN Flow(Leave(worker, Extracted(cid, csesidx, ses, host, expires_at)),
                    task, g)
          ELSE IF cancelled
          THEN Flow(Leave(worker, FlowFailure(task.cancel_reason)),
                    LogAll(task, <<lines[1]>>), g)
          ELSE Flow(Leave(worker, Extracted(cid, csesidx, ses, host, expires_at)),
                    IF worker.is_new_account THEN task ELSE LogAll(task, lines), g)
  /\ UNCHANGED flowFrame

\* a page operation or a mail poll outside a try-block raises (opening a
\* page, the lookup of the send button or of the code field, page.url):
\* login_and_extract logs the exception and returns a failure
FlowError ==
  /\ worker.pc \in {"open", "send", "poll", "poll_again", "submit", "name",
                    "settle"}
  /\ FlowLines(<< <<"error", "automation error">> >>,
               Leave(worker, FlowFailure("automation error")),
               [ghost EXCEPT !.errors = @ + 1], <<>>, ghost)
  /\ UNCHANGED flowFrame

\* a cancellation of the task is requested while the attempt runs
FlowCancel ==
  /\ worker.pc # "done"
  /\ ~tasks[worker.tid].cancel_requested
  /\ interventions < MaxInterventions
  /\ interventions' = interventions + 1
  /\ tasks' = [tasks EXCEPT ![worker.tid].cancel_requested = TRUE,
                            ![worker.tid].cancel_reason = "cancelled by user"]
  /\ UNCHANGED <<is_polling, current_task, refresh_timestamps, cancel_hooks,
                 task_seq, store, config, now, co, fut, queue, worker,
                 triggered_today, ghost>>

\* _refresh_one (a refresh) or register_one (a registration) is about to
\* call login_and_extract
InitLogin ==
  /\ is_polling = TRUE
  /\ current_task = 1
  /\ refresh_timestamps = <<>>
  /\ cancel_hooks = <<>>
  /\ triggered_today = {}
  /\ tasks = (1 :> [NewTask(1, <<1>>) EXCEPT !.status = "running"])
  /\ task_seq = 1
  /\ store = StoreInit
  /\ config \in {c \in ConfigSpace :
                   c.refresh_batch_size = 1 /\ ~c.auto_register_enabled}
  /\ now = 0
  /\ co = [l \in Loops |-> InitCo]
  /\ fut = [l \in Loops |-> NoFuture]
  /\ queue = <<>>
  /\ \E is_new_account \in BOOLEAN :
       worker = [pc |-> "create", tid |-> 1, page |-> "none",
                 is_new_account |-> is_new_account, send_round |-> 0,
                 attempt |-> 0, code |-> NoCode,
                 result |-> [kind |-> "none"]]
  /\ interventions = 0
  /\ ghost = [failed_rounds |-> 0, round_delays |-> <<>>, clicks |-> 0,
              click_delay |-> 0, sent_error |-> "", entered |-> {},
              polls |-> <<>>,
              resent |-> FALSE, submitted |-> <<>>, extracted |-> FALSE,
              errors |-> 0]

NextLogin ==
  \/ CreatePage
  \/ OpenLogin
  \/ SendRound
  \/ ClickSend
  \/ RoundEnd
  \/ AwaitCodeInput
  \/ PollForCode
  \/ ResendCode
  \/ PollAgain
  \/ SubmitCode
  \/ NameSetup
  \/ SettleAndParams
  \/ ExtractConfig
  \/ FlowError
  \/ FlowCancel

SpecLogin == InitLogin /\ [][NextLogin]_vars

\* ------------------------------------------------ the mail poll of a login
\* CloudflareMailClient as _run_flow uses it: the attempt notes its start
\* time, and each fetch lists the mailbox, leaves out the messages whose
\* created_at reads earlier than the since-time, and returns the first code
\* it finds, newest message first.

\* messages the mailbox receives
MaxMessages == 2

\* poll_for_code(timeout=15, interval=5, since_time=task_start_time)
poll_timeout == 15
poll_interval == 5

\* max_retries = max(1, timeout // interval)
MaxRetries(timeout, interval) ==
  IF timeout \div interval > 1 THEN timeout \div interval ELSE 1

\* how the server wrote created_at: not at all (or empty), a text that
\* fromisoformat rejects, epoch seconds, an ISO text with a zone, an ISO
\* text without one
Stamps == {"none", "garbled", "epoch", "zoned", "naive"}

\* hours by which the clock that wrote a zone-less created_at is ahead of
\* the local clock
ZoneShifts == {0, 1}

Message(id, created, stamp, shift, code) ==
  [id |-> id, created |-> created, stamp |-> stamp, shift |-> shift,
   code |-> code]

\* msg_time as lines 245-256 compute it, <<>> when the field is missing or
\* the conversion raises: epoch seconds and a zoned text give the local time
\* of creation, a zone-less text is taken as local time as written
MsgTime(msg) ==
  CASE msg.stamp \in {"epoch", "zoned"} -> <<msg.created>>
    [] msg.stamp = "naive" -> <<msg.created + msg.shift>>
    [] OTHER -> <<>>

\* `if msg_time < since_time: continue`, reached only with a msg_time
Skipped(msg, since_time) ==
  IF MsgTime(msg) = <<>> THEN FALSE ELSE MsgTime(msg)[1] < since_time

\* messages without message k
Without(messages, k) ==
  SubSeq(messages, 1, k - 1) \o SubSeq(messages, k + 1, Len(messages))

\* sorted(messages, key=int(id), reverse=True)
RECURSIVE NewestFirst(_)
NewestFirst(messages) ==
  IF messages = <<>> THEN <<>>
  ELSE LET k == CHOOSE k \in 1..Len(messages) :
                  \A j \in 1..Len(messages) : messages[j].id <= messages[k].id
       IN <<messages[k]>> \o NewestFirst(Without(messages, k))

\* the for-loop over the listed messages: the first one that is not skipped
\* and holds a code, as <<msg>>; <<>> when there is none
RECURSIVE FirstWithCode(_, _)
FirstWithCode(messages, since_time) ==
  IF messages = <<>> THEN <<>>
  ELSE IF ~Skipped(messages[1], since_time) /\ messages[1].code # NoCode
  THEN <<messages[1]>>
  ELSE FirstWithCode(Tail(messages), since_time)

\* fetch_verification_code: nothing without a JWT token
FetchVerificationCode(jwt_token, messages, since_time) ==
  IF ~jwt_token THEN <<>>
  ELSE FirstWithCode(NewestFirst(messages), since_time)

mailFrame ==
  <<is_polling, current_task, refresh_timestamps, cancel_hooks, tasks, task_seq,
    store, config, co, fut, queue, triggered_today, interventions>>

\* the mail server stores a message for the address: a verification mail
\* with a code, or another mail
MailDelivered ==
  /\ Len(ghost.mailbox) < MaxMessages
  /\ \E stamp \in Stamps, shift \in ZoneShifts, code \in Codes \cup {NoCode} :
       /\ stamp # "naive" => shift = 0
       /\ ghost' = [ghost EXCEPT !.mailbox =
                      Append(@, Message(Len(@) + 1, now, stamp, shift, code))]
  /\ UNCHANGED <<mailFrame, now, worker>>

\* time passes
MailClock ==
  /\ now < MaxTime
  /\ now' = now + 1
  /\ UNCHANGED <<mailFrame, worker, ghost>>

\* _run_flow begins: task_start_time = datetime.now()
FlowStart ==
  /\ worker.pc = "idle"
  /\ worker' = [worker EXCEPT !.pc = "poll", !.task_start_time = now]
  /\ UNCHANGED <<mailFrame, now, ghost>>

\* one turn of the loop of poll_for_code, in the first poll or in the poll
\* after the resend: a fetch with the since-time the flow passed; a code
\* ends the poll, the last turn without one ends it empty-handed
FetchTurn ==
  /\ worker.pc \in {"poll", "poll_again"}
  /\ LET since_time == worker.task_start_time
         found == FetchVerificationCode(worker.jwt_token, ghost.mailbox,
                                        since_time)
         last == worker.fetches + 1 >= MaxRetries(poll_timeout, poll_interval)
         g == [ghost EXCEPT !.fetched =
                 Append(@, [poll |-> worker.pc, since_time |-> since_time,
                            found |-> found])]
     IN /\ ghost' = g
        /\ worker' = IF found # <<>>
                     THEN [worker EXCEPT !.pc = "submit", !.fetches = 0,
                                         !.code = found[1].code]
                     ELSE IF ~last
                     THEN [worker EXCEPT !.fetches = @ + 1]
                     ELSE [worker EXCEPT !.fetches = 0,
                                         !.pc = IF worker.pc = "poll"
                                                THEN "resend" ELSE "done"]
  /\ UNCHANGED <<mailFrame, now>>

\* _click_resend_code_button after the first poll came back empty
ResendClick ==
  /\ worker.pc = "resend"
  /\ \E button \in BOOLEAN :
       worker' = [worker EXCEPT !.pc = IF button THEN "poll_again" ELSE "done"]
  /\ UNCHANGED <<mailFrame, now, ghost>>

\* step 6: the code the poll returned is typed and submitted
SubmitMailCode ==
  /\ worker.pc = "submit"
  /\ worker' = [worker EXCEPT !.pc = "done"]
  /\ ghost' = [ghost EXCEPT !.submitted = Append(@, worker.code)]
  /\ UNCHANGED <<mailFrame, now>>

\* a mailbox that may already hold mail, some time before a login attempt
InitMail ==
  /\ is_polling = TRUE
  /\ current_task = 0
  /\ refresh_timestamps = <<>>
  /\ cancel_hooks = <<>>
  /\ triggered_today = {}
  /\ tasks = <<>>
  /\ task_seq = 0
  /\ store = StoreInit
  /\ config \in {c \in ConfigSpace :
                   c.refresh_batch_size = 1 /\ ~c.auto_register_enabled}
  /\ now = 0
  /\ co = [l \in Loops |-> InitCo]
  /\ fut = [l \in Loops |-> NoFuture]
  /\ queue = <<>>
  /\ \E jwt_token \in BOOLEAN :
       worker = [pc |-> "idle", jwt_token |-> jwt_token, task_start_time |-> 0,
                 fetches |-> 0, code |-> NoCode]
  /\ interventions = 0
  /\ ghost = [mailbox |-> <<>>, fetched |-> <<>>, submitted |-> <<>>]

NextMail ==
  \/ MailDelivered
  \/ MailClock
  \/ FlowStart
  \/ FetchTurn
  \/ ResendClick
  \/ SubmitMailCode

SpecMail == InitMail /\ [][NextMail]_vars

\* ------------------------------------------------ _append_log, step by step
\* Two threads append to the log of one task: the event loop
\* (_run_refresh_task) and the executor thread (log_cb of _refresh_one).
\* The log starts at its limit or one entry short of it, so that the cut to
\* the last 200 entries happens.  A message is the sequence of its words.

\* appends one thread makes
MaxAppends == 2

LogThreads == {"loop", "worker"}

\* the tuple safe_messages of _append_log
safe_messages ==
  {<<"cancel", "requested:">>, <<"task", "cancelled">>,
   <<"task", "cancelled", "while", "pending">>,
   <<"login", "task", "cancelled:">>}

\* messages a thread logs: lines of the refresh, and lines written while a
\* task is being cancelled
LogMessages ==
  {<<"progress">>, <<"task">>, <<"task", "cancelled", "by", "user">>,
   <<"login", "task", "cancelled:", "reason">>}

\* message.startswith(x)
MessageStartsWith(message, x) ==
  Len(x) <= Len(message) /\ SubSeq(message, 1, Len(x)) = x

\* `if task.cancel_requested: if not any(message.startswith(x) ...): raise`
AppendRaises(cancel_requested, message) ==
  cancel_requested /\ ~\E x \in safe_messages : MessageStartsWith(message, x)

\* variant: a lock that never makes a thread wait
LockFreeAlways(lock) == TRUE

\* `with self._log_lock:` can be entered
LockFree(lock) == lock = "free"

\* the log the task has when the appends begin
OldEntry == [level |-> "info", message |-> <<"old">>]
Prefilled(n) == [i \in 1..n |-> OldEntry]

logFrame ==
  <<is_polling, current_task, refresh_timestamps, cancel_hooks, task_seq, store,
    config, now, co, fut, queue, worker, triggered_today>>

\* _append_log is called: the entry is built
LogEnter(t) ==
  /\ ghost.thread[t].pc = "idle"
  /\ ghost.thread[t].n < MaxAppends
  /\ \E message \in LogMessages :
       ghost' = [ghost EXCEPT !.thread[t] =
                   [pc |-> "lock", n |-> @.n + 1,
                    entry |-> [level |-> "info", message |-> message],
                    slice |-> <<>>]]
  /\ UNCHANGED <<logFrame, tasks, interventions>>

\* `with self._log_lock:` is entered
LogAcquire(t) ==
  /\ ghost.thread[t].pc = "lock"
  /\ LockFree(ghost.lock)
  /\ ghost' = [ghost EXCEPT !.lock = t, !.thread[t].pc = "append"]
  /\ UNCHANGED <<logFrame, tasks, interventions>>

\* task.logs.append(entry) and the test of the length
LogAppendEntry(t) ==
  /\ ghost.thread[t].pc = "append"
  /\ tasks' = [tasks EXCEPT ![1].logs = Append(@, ghost.thread[t].entry)]
  /\ ghost' = [ghost EXCEPT
       !.appended = Append(@, [by |-> t, n |-> ghost.thread[t].n,
                               entry |-> ghost.thread[t].entry]),
       !.thread[t].pc = IF Len(tasks[1].logs) + 1 > MAX_LOGS
                        THEN "slice" ELSE "release"]
  /\ UNCHANGED <<logFrame, interventions>>

\* task.logs[-200:] is evaluated
LogSlice(t) ==
  /\ ghost.thread[t].pc = "slice"
  /\ ghost' = [ghost EXCEPT !.thread[t].pc = "assign",
                            !.thread[t].slice = LastN(tasks[1].logs, MAX_LOGS)]
  /\ UNCHANGED <<logFrame, tasks, interventions>>

\* task.logs = <the slice>
LogAssign(t) ==
  /\ ghost.thread[t].pc = "assign"
  /\ tasks' = [tasks EXCEPT ![1].logs = ghost.thread[t].slice]
  /\ ghost' = [ghost EXCEPT !.thread[t].pc = "release", !.thread[t].slice = <<>>]
  /\ UNCHANGED <<logFrame, interventions>>

\* the with-block is left; the line goes to the logger
LogRelease(t) ==
  /\ ghost.thread[t].pc = "release"
  /\ ghost' = [ghost EXCEPT !.lock = "free", !.thread[t].pc = "check"]
  /\ UNCHANGED <<logFrame, tasks, interventions>>

\* the cooperative cancellation at the end of _append_log: the call returns
\* or raises TaskCancelledError, which ends what the thread was doing
LogCheck(t) ==
  /\ ghost.thread[t].pc = "check"
  /\ ghost' = [ghost EXCEPT !.thread[t].pc =
       IF AppendRaises(tasks[1].cancel_requested, ghost.thread[t].entry.message)
       THEN "raised" ELSE "idle"]
  /\ UNCHANGED <<logFrame, tasks, interventions>>

\* a cancellation of the task is requested
LogCancel ==
  /\ ~tasks[1].cancel_requested
  /\ interventions < MaxInterventions
  /\ interventions' = interventions + 1
  /\ tasks' = [tasks EXCEPT ![1].cancel_requested = TRUE,
                            ![1].cancel_reason = "cancelled by user"]
  /\ UNCHANGED <<logFrame, ghost>>

\* a running task whose log is nearly full
InitLog ==
  /\ is_polling = TRUE
  /\ current_task = 1
  /\ refresh_timestamps = <<>>
  /\ cancel_hooks = <<>>
  /\ triggered_today = {}
  /\ \E n \in (MAX_LOGS - 1)..MAX_LOGS :
       tasks = (1 :> [NewTask(1, <<1>>) EXCEPT !.status = "running",
                                               !.logs = Prefilled(n)])
  /\ task_seq = 1
  /\ store = StoreInit
  /\ config \in {c \in ConfigSpace :
                   c.refresh_batch_size = 1 /\ ~c.auto_register_enabled}
  /\ now = 0
  /\ co = [l \in Loops |-> InitCo]
  /\ fut = [l \in Loops |-> NoFuture]
  /\ queue = <<>>
  /\ worker = Idle
  /\ interventions = 0
  /\ ghost = [lock |-> "free", appended |-> <<>>, old |-> Len(tasks[1].logs),
              thread |-> [t \in LogThreads |->
                            [pc |-> "idle", n |-> 0, entry |-> OldEntry,
                             slice |-> <<>>]]]

NextLog ==
  \/ \E t \in LogThreads :
       \/ LogEnter(t)
       \/ LogAcquire(t)
       \/ LogAppendEntry(t)
       \/ LogSlice(t)
       \/ LogAssign(t)
       \/ LogRelease(t)
       \/ LogCheck(t)
  \/ LogCancel

SpecLog == InitLog /\ [][NextLog]_vars

\* ------------------------------------- the polling steps of an attempt, turn
\* by turn.  _run_flow and the helpers it calls, each wait with the number
\* of turns its loop makes: the clicks of a send round, the wait for the
\* code input, the two mail polls, the waits for the name field, for cid,
\* for the business parameters and for the cookies.

\* the turns of the loop of a polling step
Turns(step) ==
  CASE step = "click" -> max_send_attempts
    [] step = "code_input" -> 30 \div 2
    [] step \in {"poll", "poll_again"} -> MaxRetries(poll_timeout, poll_interval)
    [] step \in {"reg_name", "name"} -> 30
    [] step = "reg_cid" -> 45
    [] step = "reg_cid_retry" -> 15
    [] step = "reg_params" -> 45
    [] step = "cid" -> 30
    [] step \in {"params", "params_retry"} -> 30
    [] step = "cookies" -> 10

PollingSteps ==
  {"click", "code_input", "poll", "poll_again", "reg_name", "name", "reg_cid",
   "reg_cid_retry", "reg_params", "cid", "params", "params_retry", "cookies"}

\* where the flow goes when a polling step finds what it waits for
OnFound(step) ==
  CASE step = "click" -> "code_input"
    [] step = "code_input" -> "poll"
    [] step \in {"poll", "poll_again"} -> "submit"
    [] step = "reg_name" -> "reg_cid"
    [] step \in {"reg_cid", "reg_cid_retry"} -> "reg_params"
    [] step = "name" -> "cid"
    [] step = "cid" -> "params"
    [] step \in {"reg_params", "params", "params_retry"} -> "extract"
    [] step = "cookies" -> "success"

\* variant: the wait for the business parameters is repeated, after a
\* refresh, for as long as the parameters are missing
OnExhaustedRetrying(step) ==
  CASE step = "click" -> "round_end"
    [] step = "poll" -> "resend"
    [] step \in {"reg_name", "reg_cid_retry", "reg_params"} -> "settle"
    [] step = "reg_cid" -> "reg_cid_retry"
    [] step \in {"name", "cid"} -> "params"
    [] step = "params" -> "params_retry"
    [] step = "params_retry" -> "params"
    [] step = "cookies" -> "success"
    [] OTHER -> ""

\* where the flow goes when the loop of a polling step is exhausted: a
\* next step, or "" where the attempt ends with OnExhaustedError
OnExhausted(step) ==
  CASE step = "click" -> "round_end"
    [] step = "poll" -> "resend"
    [] step \in {"reg_name", "reg_cid_retry", "reg_params"} -> "settle"
    [] step = "reg_cid" -> "reg_cid_retry"
    [] step \in {"name", "cid"} -> "params"
    [] step = "params" -> "params_retry"
    [] step = "cookies" -> "success"
    [] OTHER -> ""

OnExhaustedError(step) ==
  CASE step = "code_input" -> "code input not found"
    [] step = "poll_again" -> "verification code timeout after resend"
    [] step = "params_retry" -> "URL parameters not found"
    [] OTHER -> ""

\* the failure results _run_flow, _extract_config and login_and_extract give
FlowErrors ==
  {"send code failed after retries", "code input not found",
   "verification code timeout", "verification code timeout after resend",
   "code input expired", "verification code submission failed",
   "URL parameters not found", "cid not found", "automation error"}

\* the loop variable of a polling step after a turn
NextTurn(i) == i + 1

waitFrame ==
  <<is_polling, current_task, refresh_timestamps, cancel_hooks, tasks, task_seq,
    store, config, now, co, fut, queue, triggered_today, interventions, ghost>>

WaitEnds(outcome) == [worker EXCEPT !.pc = "done", !.i = 0, !.result = outcome]
WaitGoes(step) == [worker EXCEPT !.pc = step, !.i = 0]

\* one turn of the loop of the polling step the flow is in
WaitTurn ==
  /\ worker.pc \in PollingSteps
  /\ \E found \in BOOLEAN :
       worker' =
         IF found
         THEN IF OnFound(worker.pc) = "success"
              THEN WaitEnds(FlowSuccess("config"))
              ELSE WaitGoes(OnFound(worker.pc))
         ELSE IF NextTurn(worker.i) < Turns(worker.pc)
         THEN [worker EXCEPT !.i = NextTurn(@)]
         ELSE IF OnExhausted(worker.pc) = ""
         THEN WaitEnds(FlowFailure(OnExhaustedError(worker.pc)))
         ELSE IF OnExhausted(worker.pc) = "success"
         THEN WaitEnds(FlowSuccess("config"))
         ELSE WaitGoes(OnExhausted(worker.pc))
  /\ UNCHANGED waitFrame

\* `while True: send_round += 1`, and after the clicks of a round failed
\* `if send_round >= max_send_rounds: return {...}`, else the sleep
WaitRound ==
  /\ worker.pc \in {"send", "round_end"}
  /\ worker' =
       IF worker.pc = "send"
       THEN [worker EXCEPT !.pc = "click", !.i = 0, !.send_round = @ + 1]
       ELSE IF worker.send_round >= max_send_rounds
       THEN WaitEnds(FlowFailure("send code failed after retries"))
       ELSE [worker EXCEPT !.pc = "send"]
  /\ UNCHANGED waitFrame

\* the steps between the waits: the resend button, the second look-up of the
\* code input, the URL after the redirect, and the cid test of
\* _extract_config
WaitBranch ==
  /\ worker.pc \in {"resend", "submit", "settle", "extract"}
  /\ \E ok \in BOOLEAN, on_login_page \in BOOLEAN, has_params \in BOOLEAN :
       worker' =
         CASE worker.pc = "resend" ->
                IF ok THEN WaitGoes("poll_again")
                ELSE WaitEnds(FlowFailure("verification code timeout"))
           [] worker.pc = "submit" ->
                IF ~ok THEN WaitEnds(FlowFailure("code input expired"))
                ELSE IF ~worker.is_new_account THEN WaitGoes("settle")
                ELSE IF on_login_page THEN WaitGoes("settle")
                ELSE WaitGoes("reg_name")
           [] worker.pc = "settle" ->
                IF ~ok
                THEN WaitEnds(FlowFailure("verification code submission failed"))
                ELSE IF has_params THEN WaitGoes("extract")
                ELSE IF worker.is_new_account \/ on_login_page
                THEN WaitGoes("params")
                ELSE WaitGoes("name")
           [] worker.pc = "extract" ->
                IF ok THEN WaitGoes("cookies")
                ELSE WaitEnds(FlowFailure("cid not found"))
  /\ UNCHANGED waitFrame

\* a page operation raises: login_and_extract returns a failure
WaitError ==
  /\ worker.pc # "done"
  /\ worker' = WaitEnds(FlowFailure("automation error"))
  /\ UNCHANGED waitFrame

\* _run_flow is entered, for a refresh or for a registration
InitWaits ==
  /\ is_polling = TRUE
  /\ current_task = 0
  /\ refresh_timestamps = <<>>
  /\ cancel_hooks = <<>>
  /\ triggered_today = {}
  /\ tasks = <<>>
  /\ task_seq = 0
  /\ store = StoreInit
  /\ config \in {c \in ConfigSpace :
                   c.refresh_batch_size = 1 /\ ~c.auto_register_enabled}
  /\ now = 0
  /\ co = [l \in Loops |-> InitCo]
  /\ fut = [l \in Loops |-> NoFuture]
  /\ queue = <<>>
  /\ \E is_new_account \in BOOLEAN :
       worker = [pc |-> "send", i |-> 0, send_round |-> 0,
                 is_new_account |-> is_new_account,
                 result |-> [kind |-> "none"]]
  /\ interventions = 0
  /\ ghost = <<>>

NextWaits ==
  \/ WaitTurn
  \/ WaitRound
  \/ WaitBranch
  \/ WaitError

SpecWaits == InitWaits /\ [][NextWaits]_vars

\* the flow runs on the executor thread (a refresh) or on the event-loop
\* thread (a registration) and is never made to wait by another thread
SpecWaitsFair == SpecWaits /\ WF_vars(NextWaits)

\* ------------------------------------- the browser page of an attempt
\* login_and_extract on the thread of the attempt and stop() on the thread
\* that fires the cancel hooks, statement by statement.  `worker` is the
\* attempt: its position, the local variable `page`, the adapter's field
\* self._page and the outcome; `ghost` holds the browser, the stop() call in
\* progress and the calls that have returned.
MaxStops == 2
MaxFlowSteps == 2

\* page.quit(): closes an open browser; on a browser already closed it does
\* nothing or raises, and both callers swallow the exception
Quit(browser) == IF browser = "open" THEN "quit" ELSE browser

\* positions of login_and_extract between its entry and its finally-clause
AttemptRunning == {"enter", "created", "flow"}

pageFrame ==
  <<is_polling, current_task, refresh_timestamps, cancel_hooks, tasks, task_seq,
    store, config, now, co, fut, queue, triggered_today, interventions>>

\* the try-block is left with `outcome`: the finally-clause is next
ToFinally(outcome) == [worker EXCEPT !.pc = "finally", !.k = 0, !.result = outcome]

\* page = self._create_page(): the browser is started and the page is held
\* by the local variable only; a failed start raises into `except Exception`
BrowserStarts ==
  /\ worker.pc = "enter"
  /\ \E started \in BOOLEAN :
       IF started
       THEN /\ worker' = [worker EXCEPT !.pc = "created", !.page = "p"]
            /\ ghost' = [ghost EXCEPT !.browser = "open"]
       ELSE /\ worker' = ToFinally(FlowFailure("automation error"))
            /\ ghost' = ghost
  /\ UNCHANGED pageFrame

\* self._page = page
PageAssigned ==
  /\ worker.pc = "created"
  /\ worker' = [worker EXCEPT !.pc = "flow", !.self_page = worker.page]
  /\ UNCHANGED <<pageFrame, ghost>>

\* return self._run_flow(page, ...): one page operation of the flow, then
\* the flow goes on, returns a result, raises, or its log callback raises
\* TaskCancelledError; an operation on a closed browser never succeeds
FlowRuns ==
  /\ worker.pc = "flow"
  /\ \E out \in {"on", "success", "failure", "raise", "tce"} :
       /\ out = "on" => worker.k < MaxFlowSteps
       /\ out \in {"on", "success"} => ghost.browser = "open"
       /\ worker' =
            CASE out = "on" -> [worker EXCEPT !.k = @ + 1]
              [] out = "success" -> ToFinally(FlowSuccess("config"))
              [] out = "failure" -> ToFinally(FlowFailure("verification code timeout"))
              [] out = "raise" -> ToFinally(FlowFailure("automation error"))
              [] OTHER -> ToFinally(FlowCancelled)
  /\ UNCHANGED <<pageFrame, ghost>>

\* finally: `if page: page.quit()` with its exception swallowed
FinallyQuits ==
  /\ worker.pc = "finally"
  /\ worker' = [worker EXCEPT !.pc = "clear"]
  /\ ghost' = IF worker.page # "none"
              THEN [ghost EXCEPT !.browser = Quit(@)]
              ELSE ghost
  /\ UNCHANGED pageFrame

\* self._page = None, then the user data is removed and the call returns
FinallyClears ==
  /\ worker.pc = "clear"
  /\ worker' = [worker EXCEPT !.pc = "done", !.self_page = "none"]
  /\ UNCHANGED <<pageFrame, ghost>>

\* stop(): `page = self._page`
StopReads ==
  /\ ghost.stop.pc = "idle"
  /\ Len(ghost.calls) < MaxStops
  /\ ghost' = [ghost EXCEPT !.stop = [pc |-> "read", page |-> worker.self_page,
                                      at |-> worker.pc]]
  /\ UNCHANGED <<pageFrame, worker>>

\* stop(): `if page: page.quit()` with its exception swallowed, and return
StopQuits ==
  /\ ghost.stop.pc = "read"
  /\ LET browser == IF ghost.stop.page # "none" THEN Quit(ghost.browser)
                    ELSE ghost.browser
     IN ghost' = [ghost EXCEPT
                    !.browser = browser,
                    !.stop = [pc |-> "idle", page |-> "none", at |-> "none"],
                    !.calls = Append(@, [at |-> ghost.stop.at,
                                         saw |-> ghost.stop.page])]
  /\ UNCHANGED <<pageFrame, worker>>

\* login_and_extract has just been called on a new adapter
InitPage ==
  /\ is_polling = TRUE
  /\ current_task = 0
  /\ refresh_timestamps = <<>>
  /\ cancel_hooks = <<>>
  /\ triggered_today = {}
  /\ tasks = <<>>
  /\ task_seq = 0
  /\ store = StoreInit
  /\ config \in {c \in ConfigSpace :
                   c.refresh_batch_size = 1 /\ ~c.auto_register_enabled}
  /\ now = 0
  /\ co = [l \in Loops |-> InitCo]
  /\ fut = [l \in Loops |-> NoFuture]
  /\ queue = <<>>
  /\ worker = [pc |-> "enter", k |-> 0, page |-> "none", self_page |-> "none",
               result |-> [kind |-> "none"]]
  /\ interventions = 0
  /\ ghost = [browser |-> "none",
              stop |-> [pc |-> "idle", page |-> "none", at |-> "none"],
              calls |-> <<>>]

NextPage ==
  \/ BrowserStarts
  \/ PageAssigned
  \/ FlowRuns
  \/ FinallyQuits
  \/ FinallyClears
  \/ StopReads
  \/ StopQuits

SpecPage == InitPage /\ [][NextPage]_vars

\* ------------------------------------------------------------------ claims

\* positions of _run_refresh_task between two accounts: the previous result
\* is recorded and the next account is not yet handed to the executor
BetweenAccountsPcs == {"t_start", "t_loop", "t_log", "t_post"}

\* the batch of coroutine l has ended and its task is still held
BatchEnded(l) == co[l].pc = "b_done" /\ co[l].tid \in DOMAIN tasks

\* the cancellation of task tid was requested between accounts k and k+1
CancelledBetween(tid) ==
  /\ tid \in DOMAIN ghost.task
  /\ ghost.task[tid].cancel_pc \in BetweenAccountsPcs
  /\ ghost.task[tid].cancel_k < Len(tasks[tid].account_ids)

\* C1: a task whose cancellation was requested after k accounts finished and
\* before account k+1 started ends cancelled, with exactly k results, and
\* the adapter was not called for any of the accounts k+1..n
C1_CancelBetweenAccounts ==
  \A l \in Loops :
    (BatchEnded(l) /\ CancelledBetween(co[l].tid)) =>
      LET t == tasks[co[l].tid]
          k == ghost.task[co[l].tid].cancel_k
      IN /\ t.status = "cancelled"
         /\ Len(t.results) = k
         /\ \A j \in (k + 1)..Len(t.account_ids) :
              t.account_ids[j] \notin Range(ghost.task[co[l].tid].calls)

\* a batch of two or more ended after a cancellation requested once the
\* first account had finished
C1_Witness ==
  \E l \in Loops :
    /\ BatchEnded(l)
    /\ CancelledBetween(co[l].tid)
    /\ ghost.task[co[l].tid].cancel_k >= 1
    /\ Len(ghost.task[co[l].tid].calls) >= 1

\* the fields of a task the lifecycle contract freezes once it is terminal
Frozen(task) ==
  <<task.status, task.logs, task.progress, task.success_count,
    task.fail_count, task.results>>

\* C2: once a task's status is terminal, its status, logs, counters and
\* results never change again, whenever a cancellation is requested
C2_TerminalIsFinal ==
  [][\A t \in (DOMAIN tasks) \cap (DOMAIN tasks') :
       tasks[t].status \in Terminal => Frozen(tasks'[t]) = Frozen(tasks[t])]_vars

\* the positions of a coroutine inside _run_single_batch
BatchPcs ==
  {"t_start", "t_loop", "t_log", "t_await", "t_post", "t_fin", "t_finlog"}

RunningTasks == {t \in DOMAIN tasks : tasks[t].status = "running"}

\* C3: at most one task is running, _current_task refers to it, and
\* _current_task is None when no batch is executing
C3_SerialBatches ==
  /\ Cardinality(RunningTasks) <= 1
  /\ \A t \in RunningTasks : current_task = t
  /\ (\A l \in Loops : co[l].pc \notin BatchPcs) => current_task = 0

\* the login_and_extract calls in progress: the refresh on the executor
\* thread and the registrations on the event-loop thread
OpenSessions ==
  (IF worker.pc = "w_session" THEN 1 ELSE 0)
    + Cardinality({l \in Loops : co[l].pc = "reg_session"})

\* C4: at most one adapter session is in progress at any time
C4_OneSession == OpenSessions <= 1

\* C5: a due set never contains the id of a record whose disabled flag is
\* set, whatever its expiry, mail binding and cooldown entry
C5_DisabledNotDue ==
  \A l \in Loops :
    co[l].pc = "for" =>
      \A i \in 1..Len(store) :
        store[i].disabled => store[i].id \notin Range(co[l].expiring)

\* a due set was computed while a disabled record was bound, inside the
\* window and out of cooldown
C5_Witness ==
  \E l \in Loops :
    /\ co[l].pc = "for" /\ co[l].i = 0
    /\ \E i \in 1..Len(store) :
         /\ store[i].disabled
         /\ store[i].id # NoValue
         /\ BindingComplete(store[i], config)
         /\ WithinWindow(store[i], config, now)
         /\ ~InCooldown(store[i].id, config, refresh_timestamps, now)
         /\ store[i].id \notin Range(co[l].expiring)

\* the step in which the executor thread starts _refresh_one for the head
\* of its queue
WorkerStarts ==
  worker.pc = "idle" /\ queue # <<>> /\ queue' = Tail(queue) /\ co' = co

\* the store record of an account id is disabled
DisabledInStore(account_id) ==
  \E i \in 1..Len(store) : store[i].id = account_id /\ store[i].disabled

\* C6: a refresh that starts for an account whose store record is disabled
\* ends at once with a failure result, without a call of the adapter
C6_DisabledNotRefreshed ==
  [][(WorkerStarts /\ DisabledInStore(Head(queue).account)) =>
       /\ worker' = Idle
       /\ ghost' = ghost
       /\ fut'[Head(queue).owner].kind = "result"
       /\ ~fut'[Head(queue).owner].result.success]_vars

\* a refresh returned "account disabled" for an account of the due set
C6_Witness ==
  \E l \in Loops :
    /\ fut[l].kind = "result"
    /\ fut[l].result.error = "account disabled"
    /\ fut[l].result.email \in Range(co[l].expiring)

\* the step in which coroutine l leaves the trigger wait with a due set
DueComputed(l) == co[l].pc = "trigger" /\ co'[l].pc = "for"

\* the step in which coroutine l records the result of an account
ResultRecorded(l) == co[l].pc = "t_await" /\ co'[l].pc = "t_post"

\* an account record is eligible apart from its cooldown
EligibleRecord(account, clock) ==
  /\ account.id # NoValue
  /\ ~account.disabled
  /\ BindingComplete(account, config)
  /\ WithinWindow(account, config, clock)

C8_FailureKeepsEligible ==
  [][/\ refresh_timestamps' # refresh_timestamps =>
          \E l \in Loops :
            /\ ResultRecorded(l)
            /\ fut[l].kind = "result" /\ fut[l].result.success
            /\ refresh_timestamps' =
                 (CurrentAccount(l) :> now') @@ refresh_timestamps
     /\ \A l \in Loops :
          DueComputed(l) =>
            \A i \in 1..Len(store) :
              (store[i].id \in ghost.failed /\ EligibleRecord(store[i], now')) =>
                store[i].id \in Range(co'[l].expiring)]_vars

\* a due set was just computed that contains an account whose latest
\* refresh failed
C8_Witness ==
  \E l \in Loops :
    /\ co[l].pc = "for" /\ co[l].i = 0
    /\ ghost.failed \cap Range(co[l].expiring) # {}

RECURSIVE Flatten(_)
Flatten(ss) == IF ss = <<>> THEN <<>> ELSE Head(ss) \o Flatten(Tail(ss))

Ceil(n, b) == (n + b - 1) \div b

\* coroutine l went through every iteration of the batch loop of its cycle
CycleComplete(l) ==
  co[l].pc = "round_done" /\ co[l].i >= Len(co[l].expiring)

\* C9: a cycle that ran through its batch loop dispatched ceil(N/B) batches
\* whose concatenation is the due set
C9_Partition ==
  \A l \in Loops :
    CycleComplete(l) =>
      /\ Len(ghost.batches) = Ceil(Len(co[l].expiring), config.refresh_batch_size)
      /\ Flatten(ghost.batches) = co[l].expiring

\* a due set of three went out as two batches
C9_Witness ==
  \E l \in Loops :
    /\ CycleComplete(l)
    /\ Len(co[l].expiring) = 3
    /\ Len(ghost.batches) = 2

\* the daily poll of coroutine l in a minute that is configured and has not
\* fired on this day
PollsUnfiredTime(l) ==
  /\ co[l].pc = "poll" /\ co'[l] # co[l]
  /\ is_polling
  /\ CurrentTime(now) \in Range(co[l].cron.times)
  /\ <<TodayStr(now), CurrentTime(now)>> \notin Range(ghost.fired)

\* C10: the wait returns at most once for a configured time on a day, and a
\* poll in the minute of a configured time that has not fired on that day
\* returns for it, whatever other times have fired on that day
C10_DailyTrigger ==
  /\ [](\A i, j \in 1..Len(ghost.fired) :
          i # j => ghost.fired[i] # ghost.fired[j])
  /\ [][\A l \in Loops :
          PollsUnfiredTime(l) =>
            /\ co'[l].pc = "returned"
            /\ ghost'.fired =
                 Append(ghost.fired, <<TodayStr(now), CurrentTime(now)>>)]_vars

\* two configured times have fired on one day, and the wait was entered
\* again in the minute of the second and did not return for it
C10_Witness ==
  /\ co[1].pc = "poll_sleep"
  /\ <<TodayStr(now), CurrentTime(now)>> \in Range(ghost.fired)
  /\ \E i, j \in 1..Len(ghost.fired) :
       /\ ghost.fired[i][1] = ghost.fired[j][1]
       /\ ghost.fired[i][2] # ghost.fired[j][2]

\* the minutes the text "*/N" stands for: N from 5 upwards, 5 below it
IntervalMinutes(n) == IF n >= 5 THEN n ELSE 5

\* the wait of loop l works on an interval string whose number parses
WaitsOnInterval(l) ==
  /\ co[l].pc \in {"interval_sleep", "returned"}
  /\ EffectiveCron(config).star
  /\ EffectiveCron(config).arg # Unparsable

\* C11: for an interval string "*/N" the wait before a cycle sleeps
\* max(N, 5) minutes: the sleep it asks for is N minutes when N >= 5 and
\* 5 minutes when N < 5 (10 for "*/10", 5 for "*/2"), and the wait does not
\* return before that much time has passed.
C11_IntervalWait ==
  /\ [](\A l \in Loops :
          WaitsOnInterval(l) =>
            /\ co[l].cron.mode = "interval"
            /\ co[l].cron.minutes = IntervalMinutes(EffectiveCron(config).arg)
            /\ (EffectiveCron(config) = CronStar(10) => co[l].cron.minutes = 10)
            /\ (EffectiveCron(config) = CronStar(2) => co[l].cron.minutes = 5))
  /\ [][\A l \in Loops :
          (WaitsOnInterval(l) /\ co[l].pc = "interval_sleep"
             /\ co'[l].pc = "returned") =>
            now' - now >= IntervalMinutes(EffectiveCron(config).arg) * 2]_vars

\* a wait on "*/2" has slept its 5 minutes and returned
C11_Witness ==
  /\ co[1].pc = "returned"
  /\ config.scheduled_refresh_cron = CronStar(2)
  /\ co[1].cron.minutes = 5
  /\ now >= Tick(0, 8, 0, 0) + 5 * 2

\* the records of a deletion request that carry an id
Named(request) ==
  {i \in 1..Len(request.accounts) : request.accounts[i].id # NoValue}

\* C12: a deletion request names exactly the accounts that are not disabled
\* and whose trial_end is a date strictly before today's date; an account
\* whose trial_end is today, later, absent or no date is not in the request.
C12_DeletionRequest ==
  \A k \in 1..Len(ghost.requests) :
    LET request == ghost.requests[k]
        today == Today(request.clock)
    IN \A i \in Named(request) :
         LET account == request.accounts[i]
         IN /\ account.id \in Range(request.ids) <=>
                 /\ ~account.disabled
                 /\ account.trial_end \in 0..(today - 1)
            /\ account.trial_end \in {NoValue, Unparsable, today, today + 1} =>
                 account.id \notin Range(request.ids)

\* a request was sent that names one account and leaves out another whose
\* trial ends today
C12_Witness ==
  /\ Len(ghost.requests) = 1
  /\ LET request == ghost.requests[1]
     IN /\ request.ids = <<1>>
        /\ request.accounts[2].trial_end = Today(request.clock)
        /\ ~request.accounts[2].disabled

\* positions inside _auto_register_if_needed
RegisterPcs == {"reg", "reg_session", "reg_sleep"}

\* n registrations with a pause between each two of them
Alternating(n) ==
  [k \in 1..(IF n = 0 THEN 0 ELSE 2 * n - 1) |->
     IF k % 2 = 1 THEN "register" ELSE "sleep"]

IsPrefix(s, t) == Len(s) <= Len(t) /\ s = SubSeq(t, 1, Len(s))

\* C13: with a minimum m > 0 and a active accounts, one run of
\* auto-registration makes exactly max(0, m - a) registration attempts,
\* whatever their results, pauses between each two consecutive attempts and
\* not after the last, and makes no further attempt.
C13_AutoRegistration ==
  (ghost.reg.ran /\ ghost.reg.min_count > 0) =>
    LET m == ghost.reg.min_count
        a == ghost.reg.active_count
        expected == Alternating(IF m > a THEN m - a ELSE 0)
    IN /\ IsPrefix(ghost.reg.trace, expected)
       /\ (\A l \in Loops : co[l].pc \notin RegisterPcs) =>
            ghost.reg.trace = expected

\* a run with a shortfall of two is over: two attempts and one pause
C13_Witness ==
  /\ ghost.reg.ran
  /\ ghost.reg.min_count - ghost.reg.active_count = 2
  /\ ghost.reg.trace = <<"register", "sleep", "register">>
  /\ \A l \in Loops : co[l].pc \notin RegisterPcs

\* C14: an attempt whose send-code rounds have all failed, three of them,
\* ends with the send-code failure, or with the cancellation signal when a
\* cancellation of its task was requested meanwhile; it never waits for
\* the code field, never polls the mail provider, never extracts a config.
C14_SendCodeFailed ==
  ghost.failed_rounds = max_send_rounds =>
    /\ worker.pc \in {"round_end", "done"}
    /\ worker.pc = "done" =>
         IF tasks[worker.tid].cancel_requested /\ ~worker.is_new_account
         THEN worker.result \in {FlowCancelled,
                                 FlowFailure("send code failed after retries")}
         ELSE worker.result = FlowFailure("send code failed after retries")
    /\ "AwaitCodeInput" \notin ghost.entered
    /\ ghost.polls = <<>>
    /\ ~ghost.extracted

\* three rounds of three clicks each failed, every click with the captcha
\* signal (an error line each, and the closing one), and the attempt has
\* returned
C14_Witness ==
  /\ ghost.failed_rounds = max_send_rounds
  /\ ghost.clicks = max_send_rounds * max_send_attempts
  /\ worker.pc = "done"
  /\ worker.result = FlowFailure("send code failed after retries")
  /\ Len(SelectSeq(tasks[worker.tid].logs, LAMBDA e : e.level = "error"))
       = max_send_rounds * max_send_attempts + 1

\* the two results a code timeout ends the attempt with
CodeTimeouts ==
  {FlowFailure("verification code timeout"),
   FlowFailure("verification code timeout after resend")}

\* the first poll timed out and the second poll, after a resend, returned a
\* code
CodeAfterResend ==
  /\ Len(ghost.polls) = 2
  /\ ghost.polls[1] = NoCode
  /\ ghost.polls[2] # NoCode

\* C15: when the first poll of the mail provider times out, the resend
\* succeeds and the second poll returns a code c, the attempt does not fail
\* with a code timeout and what it submits in the code field is exactly c.
C15_CodeAfterResend ==
  CodeAfterResend =>
    /\ ghost.resent
    /\ worker.pc = "done" => worker.result \notin CodeTimeouts
    /\ Len(ghost.submitted) <= 1
    /\ \A i \in 1..Len(ghost.submitted) : ghost.submitted[i] = ghost.polls[2]

\* the code arrived with the second poll, was submitted and the attempt
\* returned a config
C15_Witness ==
  /\ CodeAfterResend
  /\ ghost.submitted = <<ghost.polls[2]>>
  /\ worker.pc = "done"
  /\ worker.result.kind = "result"
  /\ worker.result.success

\* C16: an attempt that is reported as success has obtained the config
\* identifier, the session index and both session cookies.
C16_NoPartialSuccess ==
  (worker.pc = "done" /\ worker.result.kind = "result" /\ worker.result.success) =>
    "" \notin {worker.result.config.config_id, worker.result.config.csesidx,
               worker.result.config.secure_c_ses,
               worker.result.config.host_c_oses}

\* ---------------------------------------------------------------- C17
\* the loops that are inside _run_refresh_task
InTask(l) == co[l].pc \in {"t_loop", "t_log", "t_await", "t_post", "t_fin", "t_finlog"}

\* the await of loop l returns in this step with an exception that is not
\* TaskCancelledError (the step is the loop's own, not a call from outside
\* that cancels the waiting coroutine)
ExceptionCaught(l) ==
  /\ co[l].pc = "t_await"
  /\ fut[l].kind = "exc"
  /\ fut'[l] = NoFuture
  /\ interventions' = interventions

\* the exception became the failure result of the account, was counted, and
\* the task goes on
RecordedAsFailure(l) ==
  LET tid == co[l].tid
      t == tasks[tid]
      u == tasks'[tid]
  IN /\ u.results = Append(t.results, Failure(CurrentAccount(l), "exception"))
     /\ u.fail_count = t.fail_count + 1
     /\ u.success_count = t.success_count
     /\ u.progress = t.progress + 1
     /\ u.status = "running"
     /\ ~u.finished
     /\ co'[l].pc = "t_post"
     /\ co'[l].idx = co[l].idx

\* every account before the one the loop is at has its result, and the loop
\* leaves the accounts only after the last one
NoAccountSkipped(l) ==
  LET t == tasks[co[l].tid]
  IN /\ Len(t.results) = t.progress
     /\ t.success_count + t.fail_count = t.progress
     /\ \A i \in 1..Len(t.results) : t.results[i].email = t.account_ids[i]
     /\ t.progress = CASE co[l].pc \in {"t_loop", "t_log", "t_await"} -> co[l].idx - 1
                        [] co[l].pc = "t_post" -> co[l].idx
                        [] OTHER -> Len(t.account_ids)

\* C17: an exception other than cancellation raised by the refresh of one
\* account is recorded as that account's failure result, fail_count is
\* incremented, the task stays running, and no later account of the batch is
\* skipped: the task reaches the end of the loop only with one result per
\* account, and an account is passed over only when the task is cancelled
C17_ExceptionIsAResult ==
  /\ [](\A l \in Loops : InTask(l) => NoAccountSkipped(l))
  /\ [][\A l \in Loops : ExceptionCaught(l) => RecordedAsFailure(l)]_vars
  /\ [][\A l \in Loops :
         (co[l].pc = "t_loop" /\ co'[l].pc = "b_done") =>
           tasks[co[l].tid].cancel_requested]_vars

\* the second account of a batch has its result after the first one raised
C17_Witness ==
  \E tid \in DOMAIN tasks :
    /\ Len(tasks[tid].results) = 2
    /\ tasks[tid].results[1] = Failure(tasks[tid].account_ids[1], "exception")
    /\ ~tasks[tid].cancel_requested

\* ---------------------------------------------------------------- C18
\* the failures among the results of a task
FailedResults(task) == {i \in 1..Len(task.results) : ~task.results[i].success}

CancelRequestedNow(t) == ~tasks[t].cancel_requested /\ tasks'[t].cancel_requested

\* C19: in the step that requests the cancellation of a running task every
\* cancel hook registered for the task is invoked, so that stop() reaches
\* the adapter of the account in flight
C19_HooksInvoked ==
  [][\A t \in (DOMAIN tasks) \cap (DOMAIN tasks') :
       (tasks[t].status = "running" /\ CancelRequestedNow(t)) =>
         ghost'.task[t].fired = FireCancelHooks(cancel_hooks, t)]_vars

\* ---------------------------------------------------------------- C20
\* C20: a task that was cancelled, by the flag seen between two accounts, by
\* the signal raised at a log line or by the cancellation of the awaiting
\* coroutine, ends with status cancelled, finished_at set and a cancel
\* reason that is not empty
C20_CancelledRecord ==
  \A l \in Loops :
    (BatchEnded(l) /\ tasks[co[l].tid].cancel_requested) =>
      /\ tasks[co[l].tid].status = "cancelled"
      /\ tasks[co[l].tid].finished
      /\ tasks[co[l].tid].cancel_reason # ""

\* ---------------------------------------------------------------- C21
\* stop_polling was called while start_polling was running
Stopped(l) == ~is_polling /\ co[l].pc \notin {"init", "done"}

\* the positions that begin something new: a wait for the next trigger, the
\* sleep of a disabled scheduler, a batch, the wait before the next batch
BeginPcs == {"trigger", "sleep_disabled", "t_start", "batch_sleep"}

DueSetComputed == co[1].pc = "for" /\ 2 \in Range(co[1].expiring)

\* C23: a freemail account that is otherwise due is in the due set exactly
\* when a JWT token is configured globally or on the account itself
C23_FreemailToken ==
  (DueSetComputed /\ Lower(store[1].mail_provider) = "freemail") =>
    (1 \in Range(co[1].expiring) <=>
       (config.freemail_jwt_token # "" \/ store[1].mail_jwt_token # ""))

\* ---------------------------------------------------------------- C24
KnownProviders == {"microsoft", "duckmail", "moemail", "freemail", "gptmail"}

\* the rule the fallback gives: microsoft's (client id and refresh token)
\* when an OAuth field is present, duckmail's (a password) otherwise
FallbackComplete(account) ==
  IF account.mail_client_id # "" \/ account.mail_refresh_token # ""
  THEN account.mail_client_id # "" /\ account.mail_refresh_token # ""
  ELSE MailPassword(account) # ""

\* C24: an account whose provider tag is empty or not a known one is in the
\* due set, and gets a mail client in _refresh_one, exactly when the
\* fallback rule is met
C24_FallbackProvider ==
  Lower(store[1].mail_provider) \notin KnownProviders =>
    /\ DueSetComputed =>
         (1 \in Range(co[1].expiring) <=> FallbackComplete(store[1]))
    /\ ghost.binding_error # Unresolved =>
         (ghost.binding_error = "" <=> FallbackComplete(store[1]))

\* ---------------------------------------------------------------- C25
\* the refresh writes the store in this step (the adapter returned a config)
StoreWritten == worker.pc = "w_session" /\ worker'.pc = "w_saved"

\* a record of the store is changed in this step by the program itself (not
\* by an operator, and not a new record appended by a registration)
RecordChanged ==
  /\ interventions' = interventions
  /\ \E i \in 1..Min(Len(store), Len(store')) : store'[i] # store[i]

\* the attempt that wrote the store ends in this step
WrittenAttemptEnds == worker.pc = "w_saved" /\ worker'.pc = "idle"

\* C25: the store changes under a refresh only in the step that follows a
\* success of the adapter, and an attempt that has written the store ends
\* as a success: an attempt that fails, raises or is cancelled has written
\* nothing
C25_WriteOnlyOnSuccess ==
  [][/\ RecordChanged => StoreWritten
     /\ WrittenAttemptEnds =>
          /\ worker.owner # 0
          /\ fut'[worker.owner] = Returned(Success(worker.account))
          /\ ~tasks[worker.tid].cancel_requested]_vars

\* ---------------------------------------------------------------- C26
\* a cycle whose trigger fired ends in this step without a registration:
\* the loop goes back to the head of the while-loop, where the next cycle
\* starts, from the due-set computation or from the end of the batches
EndsUnregistered ==
  /\ co[1].pc \in {"trigger", "round_done"}
  /\ co'[1].pc = "while"

\* the active accounts were fewer than the configured minimum when the
\* cycle came to its end
Shortfall ==
  /\ config.auto_register_enabled
  /\ config.min_account_count > 0
  /\ ActiveCount(store) < config.min_account_count

\* C26: a cycle whose trigger fired with auto-registration enabled and fewer
\* active accounts than the minimum does not end before the registration was
\* run for the shortfall, whether the due set was empty or not
C26_RegistrationEveryCycle ==
  [][EndsUnregistered => ~Shortfall]_vars

\* ---------------------------------------------------------------- C27
\* the identity and the mail-binding fields of a record
BindingFields(account) ==
  [id |-> account.id,
   mail_provider |-> account.mail_provider,
   mail_address |-> account.mail_address,
   mail_password |-> account.mail_password,
   email_password |-> account.email_password,
   mail_client_id |-> account.mail_client_id,
   mail_refresh_token |-> account.mail_refresh_token,
   mail_jwt_token |-> account.mail_jwt_token]

\* C27: the record a successful refresh writes back has the identity and the
\* mail-binding fields (provider tag, mail address, password, OAuth client id
\* and refresh token, JWT) of the record that was stored before
C27_BindingPreserved ==
  ghost.before # <<>> => BindingFields(store[1]) = BindingFields(ghost.before[1])

\* ---------------------------------------------------------------- C28
\* C28: within one login attempt the send button is clicked at most three
\* times in all, and the sleep after the i-th click that did not send the
\* code is the i-th of 15, 30 and 60 seconds
C28_SendBudget ==
  /\ ghost.clicks <= max_send_attempts
  /\ ghost.click_delay # 0 => ghost.click_delay = send_round_delays[ghost.clicks]

\* ---------------------------------------------------------------- C29
\* C29: a click is counted as having sent the code only when neither check
\* reported a captcha failure: _last_send_error is not captcha_check_failed
\* when _click_send_code_button returns True
C29_CaptchaNeverSent ==
  ghost.sent_error # "captcha_check_failed"

\* ---------------------------------------------------------------- C30
\* a fetch that returned a code during the attempt
FetchesWithCode ==
  {k \in 1..Len(ghost.fetched) : ghost.fetched[k].found # <<>>}

\* C30: every fetch of the first poll and of the poll after the resend is
\* given the start time of the attempt as since-time, and the message a
\* fetch takes its code from was created at or after that since-time
C30_NoStaleCode ==
  /\ \A k \in 1..Len(ghost.fetched) :
       ghost.fetched[k].since_time = worker.task_start_time
  /\ \A k \in FetchesWithCode :
       ghost.fetched[k].found[1].created >= ghost.fetched[k].since_time

\* ---------------------------------------------------------------- C31
\* _run_single_batch returns to the polling loop with its task
BatchReturns(l) ==
  co[l].pc # "b_done" /\ co'[l].pc = "b_done" /\ co'[l].tid # 0

Added(t) ==
  \E k \in 1..Len(ghost.appended) :
    ghost.appended[k].by = t /\ ghost.appended[k].n = ghost.thread[t].n

\* thread t leaves _append_log
LeavesAppend(t) == ghost.thread[t].pc = "check" /\ ghost'.thread[t].pc # "check"

\* C32: an append made while the cancellation flag is set raises the
\* cancellation signal and adds no line to the log when its message has no
\* allow-listed prefix; every other append adds its line and returns
C32_CheckedBeforeAppend ==
  [][\A t \in LogThreads :
       LeavesAppend(t) =>
         IF AppendRaises(tasks[1].cancel_requested, ghost.thread[t].entry.message)
         THEN ghost'.thread[t].pc = "raised" /\ ~Added(t)'
         ELSE ghost'.thread[t].pc = "idle" /\ Added(t)']_vars

\* ---------------------------------------------------------------- C33
\* every entry the log ever received, in the order of the appends
EverAppended ==
  Prefilled(ghost.old)
    \o [k \in 1..Len(ghost.appended) |-> ghost.appended[k].entry]

\* C33: whenever no append is under way inside the lock, the log holds at
\* most 200 entries and they are the last entries appended, by either
\* thread, in the order they were appended
C33_LogBounded ==
  ghost.lock = "free" =>
    /\ Len(tasks[1].logs) <= MAX_LOGS
    /\ tasks[1].logs = LastN(EverAppended, MAX_LOGS)

C33_Witness ==
  /\ ghost.lock = "free"
  /\ Len(ghost.appended) >= 3
  /\ ghost.appended[1].by # ghost.appended[2].by
  /\ ghost.thread["loop"].pc = "check"
  /\ ghost.thread["worker"].pc = "lock"
  /\ Len(tasks[1].logs) = MAX_LOGS
  /\ tasks[1].logs[MAX_LOGS] = ghost.thread["loop"].entry

\* ---------------------------------------------------------------- C34
\* a registration attempt is started: register_one is called
RegistrationStarts(l) == co[l].pc = "reg" /\ co'[l] # co[l]

\* C34: once polling was stopped, no wait of the loop is followed by new
\* work: no batch is dispatched and no registration attempt is started
C34_StopCheckedAfterWaits ==
  [][Stopped(1) => (task_seq' = task_seq /\ ~RegistrationStarts(1))]_vars

\* ---------------------------------------------------------------- C35
\* C35: every attempt ends: the loop of each polling step stays within its
\* number of turns, and the attempt ends with a configuration or with one
\* of the failures the flow defines
C35_AttemptTerminates ==
  /\ [](worker.pc \in PollingSteps => worker.i < Turns(worker.pc))
  /\ [](worker.send_round <= max_send_rounds)
  /\ [](worker.pc = "done" =>
          (worker.result.success \/ worker.result.error \in FlowErrors))
  /\ <>(worker.pc = "done")

C35_Witness ==
  /\ worker.pc = "done"
  /\ worker.is_new_account
  /\ worker.send_round = max_send_rounds
  /\ ~worker.result.success
  /\ worker.result.error = "URL parameters not found"

\* ---------------------------------------------------------------- C36
\* the load of the accounts fails in this step: load_accounts_sync returns
\* None, or the load raises
LoadFails(l) ==
  /\ co[l].pc = "trigger"
  /\ ghost'.load \in {"failed", "raised"}
  /\ ghost'.load # ghost.load

\* C36: a cycle whose load of the accounts fails has an empty due set,
\* dispatches no batch, and leaves the loop polling at the head of the next
\* cycle
C36_LoadFailureDegrades ==
  [][LoadFails(1) =>
       /\ co'[1].expiring = <<>>
       /\ task_seq' = task_seq
       /\ co'[1].pc = "while"
       /\ is_polling']_vars

\* ---------------------------------------------------------------- C37
\* the await of an account ends with the cancellation signal
UnwoundByCancellation(l) ==
  /\ co[l].pc = "t_await"
  /\ fut[l].kind = "tce"
  /\ co'[l].pc # "t_await"

TaskCounters(task) ==
  <<task.progress, task.success_count, task.fail_count, task.results>>

\* C37: in every state of every task progress = success_count + fail_count
\* = the number of results, at most the number of accounts of the batch,
\* and the i-th result is that of the i-th account; an account whose
\* execution was unwound by cancellation adds no result and changes no
\* counter
C37_ResultsMatchAccounts ==
  /\ [](\A t \in DOMAIN tasks :
          /\ tasks[t].progress = tasks[t].success_count + tasks[t].fail_count
          /\ tasks[t].progress = Len(tasks[t].results)
          /\ tasks[t].progress <= Len(tasks[t].account_ids)
          /\ \A i \in 1..Len(tasks[t].results) :
               tasks[t].results[i].email = tasks[t].account_ids[i])
  /\ [][UnwoundByCancellation(1) =>
          TaskCounters(tasks'[co[1].tid]) = TaskCounters(tasks[co[1].tid])]_vars

C37_Witness ==
  /\ co[1].pc = "b_done"
  /\ co[1].tid # 0
  /\ tasks[co[1].tid].status = "cancelled"
  /\ Len(tasks[co[1].tid].account_ids) = 2
  /\ tasks[co[1].tid].progress = 1
  /\ tasks[co[1].tid].fail_count = 1
  /\ ghost.task[co[1].tid].cancel_pc = "t_await"
  /\ ghost.task[co[1].tid].cancel_k = 1

\* ---------------------------------------------------------------- C38
\* the drawn record was admitted to the due set of the cycle
Admitted == DueSetComputed /\ 1 \in Range(co[1].expiring)

\* the errors of _refresh_one for a missing secret or an unsupported tag
BindingErrors ==
  {"Microsoft OAuth config missing", "mail password missing",
   "Freemail JWT Token not configured", "unsupported mail provider"}

\* C38: for every record and configuration, a record admitted to the due
\* set whose mail binding has been resolved by _refresh_one got a mail
\* client: the resolution gave none of the missing-secret or
\* unsupported-provider errors
C38_DueSetRefinesBinding ==
  (Admitted /\ ghost.binding_error # Unresolved) =>
    (ghost.binding_error \notin BindingErrors /\ ghost.binding_error = "")

C38_Witness ==
  /\ Admitted
  /\ Lower(store[1].mail_provider) = "freemail"
  /\ store[1].mail_jwt_token = ""
  /\ ghost.binding_error = ""
  /\ ghost.before = <<>>

\* ---------------------------------------------------------------- C39
\* a stop() call returns in this step without having had a page to close:
\* it read no page, or the browser of the page it read was closed before
StopWithoutPage ==
  /\ ghost.stop.pc = "read"
  /\ ghost'.stop.pc = "idle"
  /\ IF ghost.stop.page = "none" THEN TRUE ELSE ghost.browser # "open"

\* C39: when login_and_extract has returned, on whatever path, the browser
\* it started is closed and self._page is None; a stop() that finds no page
\* open, or comes after an earlier one, changes nothing; and after a stop()
\* that was called while the attempt was running the browser of the attempt
\* is not open
C39_PageReleased ==
  /\ [](worker.pc = "done" =>
          (ghost.browser # "open" /\ worker.self_page = "none"))
  /\ [][StopWithoutPage =>
          (ghost'.browser = ghost.browser /\ worker' = worker)]_vars
  /\ [](\A i \in DOMAIN ghost.calls :
          ghost.calls[i].at \in AttemptRunning => ghost.browser # "open")

\* ---------------------------------------------------------------- C40
\* C40: once the coroutine running start_polling has been cancelled,
\* whatever it was awaiting, it dispatches no further batch and starts no
\* registration
C40_CancelStopsLoop ==
  [][co[1].cancelled => (task_seq' = task_seq /\ ~RegistrationStarts(1))]_vars

====
